---- MODULE Spec2Model ----
(***************************************************************************)
(* VisCO2Fly: the Express server's flight-search orchestration             *)
(* (POST /date, GET /airport-search, processFlightSearch) as a state       *)
(* machine.  One action per handler entry and per settlement of an         *)
(* outbound call: Node runs a handler from one await to the next without   *)
(* interleaving, so each action is the code between two suspension points. *)
(***************************************************************************)
EXTENDS Integers, Sequences, FiniteSets, TLC

(***************************************************************************)
(* Bounds of the model.                                                    *)
(***************************************************************************)
MaxReq == 3
MaxAir == 1
MaxTicks == 2

(***************************************************************************)
(* Program constants.                                                      *)
(***************************************************************************)
CACHE_DURATION == 30000

\* JavaScript's undefined (a destructured field the body lacks) and null.
Undefined == "undefined"
Null == [null |-> TRUE]

Requests == 1..MaxReq
AirRequests == 1..MaxAir

(***************************************************************************)
(* Generic helpers standing for Array.prototype methods.                   *)
(***************************************************************************)
RECURSIVE Join(_, _)
\* Array.prototype.join on an array of strings
Join(parts, sep) ==
  IF Len(parts) = 0 THEN ""
  ELSE IF Len(parts) = 1 THEN parts[1]
  ELSE parts[1] \o sep \o Join(Tail(parts), sep)

RECURSIVE Flatten(_)
\* the flattening half of Array.prototype.flatMap
Flatten(ss) == IF Len(ss) = 0 THEN <<>> ELSE Head(ss) \o Flatten(Tail(ss))

\* Array.prototype.map
Map(s, F(_)) == [i \in 1..Len(s) |-> F(s[i])]

Range(s) == {s[i] : i \in 1..Len(s)}

(***************************************************************************)
(* Numbers.  The page computes in IEEE 754 doubles.  Prices and durations  *)
(* are whole numbers here and are held as integers.  A CO2 amount is a     *)
(* double next to a decimal with one digit after the point: it is held as  *)
(* [tenths |-> t, excess |-> k], the double t/10 + k * Grain, where Grain  *)
(* is 2^-60 / 10.  Every double the page computes from such values with    *)
(* + 0.1 and - 0.1 is a whole number of grains away from a tenth.          *)
(***************************************************************************)
RECURSIVE Pow2(_)
Pow2(n) == IF n = 0 THEN 1 ELSE 2 * Pow2(n - 1)

RECURSIVE Pow2Mod(_, _)
\* 2^n modulo m
Pow2Mod(n, m) == IF n = 0 THEN 1 % m ELSE (2 * Pow2Mod(n - 1, m)) % m

RECURSIVE Exponent(_, _)
\* the binary exponent of num / den: the e with 2^e <= num / den < 2^(e + 1)
Exponent(num, den) ==
  IF num >= 2 * den THEN Exponent(num, 2 * den) + 1
  ELSE IF num < den THEN Exponent(2 * num, den) - 1
  ELSE 0

\* the quotient num / den as a double lies below (-1), on (0) or above (1)
\* the quotient itself: the 53-bit significand is the quotient scaled by
\* 2^(52 - e), rounded to the nearest integer
QuotientError(num, den) ==
  LET e == Exponent(num, den)
      r == ((num % den) * Pow2Mod(52 - e, den)) % den
  IN  IF r = 0 THEN 0 ELSE IF 2 * r < den THEN -1 ELSE 1

\* round to nearest, ties to even: the double nearest to t/10 + k grains.
\* In the binade of exponent e the doubles are 2^(e - 52) apart, which is
\* 10 * 2^(e + 8) grains.
RoundToDouble(t, k) ==
  IF t <= 0 THEN [tenths |-> t, excess |-> k]
  ELSE LET e0 == Exponent(t, 10)
           power == IF e0 >= 0 THEN t = 10 * Pow2(e0) ELSE t * Pow2(-e0) = 10
           e == IF power /\ k < 0 THEN e0 - 1 ELSE e0
           g == Pow2(e + 8)
           rho == ((t % 10) * Pow2Mod(52 - e, 10)) % 10
           m == (rho * g + k) % (10 * g)
           below == ((((t % 20) * Pow2Mod(52 - e, 20)) % 20) \div 10)
                      + ((rho * g + k) \div (10 * g))
           down == 2 * m < 10 * g \/ (2 * m = 10 * g /\ below % 2 = 0)
       IN  [tenths |-> t, excess |-> IF down THEN k - m ELSE k - m + 10 * g]

\* Number(value) and parseFloat(string) of a decimal with one digit after the
\* point, given as its count of tenths
NumberOfTenths(t) == RoundToDouble(t, 0)

\* x + 0.1 and x - 0.1, the literal 0.1 being the double NumberOfTenths(1)
PlusTenth(x) == RoundToDouble(x.tenths + 1, x.excess + NumberOfTenths(1).excess)
MinusTenth(x) == RoundToDouble(x.tenths - 1, x.excess - NumberOfTenths(1).excess)

\* x <= y and x < y on doubles
AtMost(x, y) == x.tenths < y.tenths \/ (x.tenths = y.tenths /\ x.excess <= y.excess)
Below(x, y) == x.tenths < y.tenths \/ (x.tenths = y.tenths /\ x.excess < y.excess)

(***************************************************************************)
(* Request bodies of POST /date (the six destructured fields).             *)
(***************************************************************************)
BodyFields == <<"departure", "arrival", "locationDeparture", "locationArrival", "adults", "cabinClass">>

BodyA == [departure |-> "2025-09-01", arrival |-> "", locationDeparture |-> "LHR",
          locationArrival |-> "JFK", adults |-> "1", cabinClass |-> "ECONOMY"]
BodyB == [BodyA EXCEPT !.cabinClass = "BUSINESS"]
BodyNoOrigin == [BodyA EXCEPT !.locationDeparture = Undefined]
BodyNoDestination == [BodyA EXCEPT !.locationArrival = Undefined]
BodyNoDate == [BodyA EXCEPT !.departure = Undefined]

\* the bodies the admission/cache specification draws from
Bodies == {BodyA, BodyB}
\* the bodies the single-search specification draws from
SearchBodies == {BodyA, BodyNoOrigin, BodyNoDestination, BodyNoDate}

\* origin, destination and departure date are the required search fields
MissingRequired(b) ==
  \/ b.locationDeparture = Undefined
  \/ b.locationArrival = Undefined
  \/ b.departure = Undefined

\* JSON.stringify of the six fields: a property whose value is undefined is
\* dropped, the others are written in declaration order
cacheKey(b) ==
  LET keep(i) == b[BodyFields[i]] # Undefined
      idx == SelectSeq([i \in 1..Len(BodyFields) |-> i], keep)
  IN  [i \in 1..Len(idx) |-> <<BodyFields[idx[i]], b[BodyFields[idx[i]]]>>]

\* an entry exactly CACHE_DURATION old still counts as fresh
CacheFreshInclusive(entry, t) == t - entry.timestamp <= CACHE_DURATION

\* Date.now() - cached.timestamp < CACHE_DURATION
CacheFresh(entry, t) == t - entry.timestamp < CACHE_DURATION

\* the clock advances in steps of half the cache's time to live
TickStep == CACHE_DURATION \div 2

(***************************************************************************)
(* Provider data.  Amadeus offers carry itineraries/segments; Duffel       *)
(* offers carry slices/segments with other field names.                    *)
(***************************************************************************)
T08 == "2025-09-01T08:00:00"
T10 == "2025-09-01T10:00:00"
T13 == "2025-09-01T13:00:00"

AmSeg(carrier, number, at, from, to) ==
  [carrierCode |-> carrier, number |-> number,
   departure |-> [iataCode |-> from, at |-> at], arrival |-> [iataCode |-> to]]

AmOffer(id, itins, total) ==
  [id |-> id, itineraries |-> itins, price |-> [total |-> total, currency |-> "EUR"]]

\* BA117 direct, two fares of the same physical flight
AmA1 == AmOffer("a1", << [segments |-> << AmSeg("BA", "117", T10, "LHR", "JFK") >>] >>, "500.00")
AmA2 == AmOffer("a2", << [segments |-> << AmSeg("BA", "117", T10, "LHR", "JFK") >>] >>, "650.00")
\* AA101 + AA202 via BOS
AmB  == AmOffer("b", << [segments |-> << AmSeg("AA", "101", T08, "LHR", "BOS"),
                                         AmSeg("AA", "202", T13, "BOS", "JFK") >>] >>, "400.00")

\* offers that differ from AmA1 in one field of the segment: the departure
\* timestamp, the flight number, the carrier code
AmLater == AmOffer("a3", << [segments |-> << AmSeg("BA", "117", T13, "LHR", "JFK") >>] >>, "500.00")
AmNumber == AmOffer("a4", << [segments |-> << AmSeg("BA", "101", T10, "LHR", "JFK") >>] >>, "500.00")
AmCarrier == AmOffer("a5", << [segments |-> << AmSeg("AA", "117", T10, "LHR", "JFK") >>] >>, "500.00")
\* the segments of AmB as two itineraries of one segment each
AmBSplit == AmOffer("b2", << [segments |-> << AmSeg("AA", "101", T08, "LHR", "BOS") >>],
                             [segments |-> << AmSeg("AA", "202", T13, "BOS", "JFK") >>] >>, "400.00")

\* a payload entry without itineraries
AmBroken == [id |-> "x", price |-> [total |-> "1.00", currency |-> "EUR"]]

DuSeg(carrier, number, at, from, to) ==
  [origin |-> [iata_code |-> from], destination |-> [iata_code |-> to],
   departing_at |-> at, arriving_at |-> at, duration |-> "PT8H",
   marketing_carrier |-> [iata_code |-> carrier], marketing_carrier_flight_number |-> number,
   operating_carrier |-> [iata_code |-> carrier], operating_carrier_flight_number |-> number,
   aircraft |-> Null]

DuOffer(id, slices, total) ==
  [id |-> id, slices |-> slices, total_amount |-> total, total_currency |-> "EUR"]

DuA1 == DuOffer("d1", << [duration |-> "PT8H", segments |-> << DuSeg("BA", "117", T10, "LHR", "JFK") >>] >>, "500.00")
DuA2 == DuOffer("d2", << [duration |-> "PT8H", segments |-> << DuSeg("BA", "117", T10, "LHR", "JFK") >>] >>, "650.00")
DuB  == DuOffer("d3", << [duration |-> "PT13H", segments |-> << DuSeg("AA", "101", T08, "LHR", "BOS"),
                                                               DuSeg("AA", "202", T13, "BOS", "JFK") >>] >>, "400.00")

\* the same variations in Duffel's shape
DuLater == DuOffer("d4", << [duration |-> "PT8H", segments |-> << DuSeg("BA", "117", T13, "LHR", "JFK") >>] >>, "500.00")
DuNumber == DuOffer("d5", << [duration |-> "PT8H", segments |-> << DuSeg("BA", "101", T10, "LHR", "JFK") >>] >>, "500.00")
DuCarrier == DuOffer("d6", << [duration |-> "PT8H", segments |-> << DuSeg("AA", "117", T10, "LHR", "JFK") >>] >>, "500.00")
DuBSplit == DuOffer("d7", << [duration |-> "PT8H", segments |-> << DuSeg("AA", "101", T08, "LHR", "BOS") >>],
                             [duration |-> "PT8H", segments |-> << DuSeg("AA", "202", T13, "BOS", "JFK") >>] >>, "400.00")

\* a settled outbound call: rejected, or resolved with response data
Rejected == [ok |-> FALSE]
Resolved(data) == [ok |-> TRUE, data |-> data]

\* responses of amadeus.shopping.flightOffersSearch.get
AmadeusOutcomes == {Rejected, Resolved(<<>>), Resolved(<<AmA1, AmA2>>), Resolved(<<AmBroken>>)}
AmadeusSearchOutcomes ==
  {Rejected, Resolved(<<>>), Resolved(<<AmA1, AmB, AmA2>>), Resolved(<<AmBroken>>)}
\* responses whose offers differ in single fields of their segments
AmadeusKeyOutcomes ==
  {Rejected, Resolved(<<AmA1, AmLater, AmA2, AmNumber, AmCarrier>>), Resolved(<<AmB, AmBSplit>>)}
\* responses of duffel.offerRequests.create
DuffelCreateOutcomes == {Rejected, Resolved([id |-> "orq_1"])}
\* responses of duffel.offers.list
DuffelListOutcomes == {Rejected, Resolved(<<DuA1, DuA2>>)}
DuffelListSearchOutcomes == {Rejected, Resolved(<<>>), Resolved(<<DuA1, DuB, DuA2>>)}

DuffelListKeyOutcomes ==
  {Rejected, Resolved(<<DuA1, DuLater, DuA2, DuNumber, DuCarrier>>), Resolved(<<DuB, DuBSplit>>)}

\* responses of computeTypicalFlightEmissions
TypicalGrams == [economy |-> 400000, premiumEconomy |-> 600000, business |-> 1200000, first |-> 1600000]
TypicalOutcomes ==
  {Resolved([typicalFlightEmissions |-> << [emissionsGramsPerPax |-> TypicalGrams] >>])}
TypicalSearchOutcomes == TypicalOutcomes \cup {Rejected, Resolved([typicalFlightEmissions |-> <<>>])}

(***************************************************************************)
(* Emissions responses of computeFlightEmissions: one entry per flight of  *)
(* the request; an entry may lack emissionsGramsPerPax.                    *)
(***************************************************************************)
CabinKeys == <<"economy", "premiumEconomy", "business", "first">>

GramsFull == [economy |-> 300000, premiumEconomy |-> 450000, business |-> 900000, first |-> 900000]
GramsEconomyOnly == [economy |-> 250000, premiumEconomy |-> 0, business |-> 0, first |-> 0]

SegEmissionFull == [emissionsGramsPerPax |-> GramsFull]
SegEmissionEconomy == [emissionsGramsPerPax |-> GramsEconomyOnly]
SegEmissionNone == [source |-> "none"]

\* n entries, all with data
EmissionsAll(n) == Resolved([flightEmissions |-> [i \in 1..n |-> SegEmissionFull]])
\* n entries, the last one without data
EmissionsLastMissing(n) ==
  Resolved([flightEmissions |-> [i \in 1..n |-> IF i = n THEN SegEmissionNone ELSE SegEmissionFull]])
\* n entries, the first one with economy data only
EmissionsMixed(n) ==
  Resolved([flightEmissions |-> [i \in 1..n |-> IF i = 1 THEN SegEmissionEconomy ELSE SegEmissionFull]])

EmissionsOutcomes(n) == {Rejected, EmissionsAll(n)}
EmissionsSearchOutcomes(n) ==
  {Rejected, EmissionsAll(n), EmissionsLastMissing(n), EmissionsMixed(n),
   Resolved([flightEmissions |-> <<>>])}

(***************************************************************************)
(* Itinerary identity, deduplication and grouping.                         *)
(***************************************************************************)
\* a key that tells fares apart: the itinerary key followed by the price
flightKeyWithPrice(offer) ==
  LET segKey(seg) == seg.carrierCode \o seg.number \o "@" \o seg.departure.at
      itinKey(itin) == Join(Map(itin.segments, segKey), "|")
  IN  Join(Map(offer.itineraries, itinKey), "||") \o "#" \o offer.price.total

\* the Amadeus-shape key: carrierCode number @ departure.at, '|' between
\* segments, '||' between itineraries
flightKeyAmadeus(offer) ==
  LET segKey(seg) == seg.carrierCode \o seg.number \o "@" \o seg.departure.at
      itinKey(itin) == Join(Map(itin.segments, segKey), "|")
  IN  Join(Map(offer.itineraries, itinKey), "||")

\* the Duffel-shape key, built from the marketing carrier
flightKeyDuffel(offer) ==
  LET segKey(seg) == seg.marketing_carrier.iata_code \o seg.marketing_carrier_flight_number
                       \o "@" \o seg.departing_at
      sliceKey(slice) == Join(Map(slice.segments, segKey), "|")
  IN  Join(Map(offer.slices, sliceKey), "||")

\* a key of carrier codes and flight numbers, without the departure timestamps
flightKeyNoTime(offer, duffel) ==
  IF duffel
  THEN LET segKey(seg) == seg.marketing_carrier.iata_code \o seg.marketing_carrier_flight_number
           sliceKey(slice) == Join(Map(slice.segments, segKey), "|")
       IN  Join(Map(offer.slices, sliceKey), "||")
  ELSE LET segKey(seg) == seg.carrierCode \o seg.number
           itinKey(itin) == Join(Map(itin.segments, segKey), "|")
       IN  Join(Map(offer.itineraries, itinKey), "||")

flightKey(offer, duffel) == IF duffel THEN flightKeyDuffel(offer) ELSE flightKeyAmadeus(offer)

\* no deduplication: every offer the provider returned is kept
KeepAllDuffel(offers) == offers

\* flightRouteMap: the first offer of each key, in order of first appearance
DedupDuffel(offers) ==
  LET first(i) == \A j \in 1..(i - 1) : flightKeyDuffel(offers[j]) # flightKeyDuffel(offers[i])
      idx == SelectSeq([i \in 1..Len(offers) |-> i], first)
  IN  [i \in 1..Len(idx) |-> offers[idx[i]]]

\* no grouping: every offer is a group of its own
OneGroupPerOffer(offers, duffel) ==
  [g \in 1..Len(offers) |-> [key |-> flightKey(offers[g], duffel), members |-> <<g>>]]

\* groupedOffers: one group per key in order of first appearance; a group
\* holds the positions (in allFlightOffers) of its offers, in order
GroupOffers(offers, duffel) ==
  LET key(i) == flightKey(offers[i], duffel)
      all == [i \in 1..Len(offers) |-> i]
      first(i) == \A j \in 1..(i - 1) : key(j) # key(i)
      heads == SelectSeq(all, first)
      members(h) == LET same(i) == key(i) = key(h) IN SelectSeq(all, same)
  IN  [g \in 1..Len(heads) |-> [key |-> key(heads[g]), members |-> members(heads[g])]]

(***************************************************************************)
(* The emissions request of a group's representative offer.                *)
(***************************************************************************)
\* parseInt on the flight numbers the providers return here
ParseInt(str) ==
  CASE str = "117" -> 117
    [] str = "101" -> 101
    [] str = "202" -> 202

\* getFullYear / getMonth + 1 / getDate of new Date(at), local time
DepartureDate(at) ==
  CASE at \in {T08, T10, T13} -> [year |-> 2025, month |-> 8 + 1, day |-> 1]

FlightsToCalculate(rep, duffel) ==
  IF duffel
  THEN LET flight(seg) ==
             [origin |-> seg.origin.iata_code, destination |-> seg.destination.iata_code,
              operatingCarrierCode |-> seg.operating_carrier.iata_code,
              flightNumber |-> ParseInt(seg.operating_carrier_flight_number),
              departureDate |-> DepartureDate(seg.departing_at)]
           ofSlice(slice) == Map(slice.segments, flight)
       IN  Flatten(Map(rep.slices, ofSlice))
  ELSE LET flight(seg) ==
             [origin |-> seg.departure.iataCode, destination |-> seg.arrival.iataCode,
              operatingCarrierCode |-> seg.carrierCode,
              flightNumber |-> ParseInt(seg.number),
              departureDate |-> DepartureDate(seg.departure.at)]
           ofItin(itin) == Map(itin.segments, flight)
       IN  Flatten(Map(rep.itineraries, ofItin))

(***************************************************************************)
(* Aggregation of one emissions response.                                  *)
(***************************************************************************)
\* typeof emissionValue === 'number', without the test for a positive value
NumberValue(fe, key) ==
  /\ "emissionsGramsPerPax" \in DOMAIN fe
  /\ key \in DOMAIN fe.emissionsGramsPerPax

\* typeof emissionValue === 'number' && emissionValue > 0
UsableValue(fe, key) ==
  /\ "emissionsGramsPerPax" \in DOMAIN fe
  /\ key \in DOMAIN fe.emissionsGramsPerPax
  /\ fe.emissionsGramsPerPax[key] > 0

RECURSIVE SumKey(_, _)
\* totalEmissions[key] after the forEach over the segments' entries
SumKey(fes, key) ==
  IF Len(fes) = 0 THEN 0
  ELSE (IF UsableValue(Head(fes), key) THEN Head(fes).emissionsGramsPerPax[key] ELSE 0)
         + SumKey(Tail(fes), key)

\* key.replace('premiumEconomy', 'premium_economy').toUpperCase()
CabinName(key) ==
  CASE key = "economy" -> "ECONOMY"
    [] key = "premiumEconomy" -> "PREMIUM_ECONOMY"
    [] key = "business" -> "BUSINESS"
    [] key = "first" -> "FIRST"

\* Array.from(availableCabinsFromGoogle): the names in order of first add,
\* the entries visited in order and the four keys in order within an entry
AvailableCabins(fes) ==
  LET visits == Flatten([i \in 1..Len(fes) |-> [k \in 1..Len(CabinKeys) |-> <<i, CabinKeys[k]>>]])
      added(v) == UsableValue(fes[v[1]], v[2])
      adds == SelectSeq(visits, added)
      firstAdd(n) == \A m \in 1..(n - 1) : adds[m][2] # adds[n][2]
      idx == SelectSeq([n \in 1..Len(adds) |-> n], firstAdd)
  IN  [n \in 1..Len(idx) |-> CabinName(adds[idx[n]][2])]

\* completeness judged by the first entry alone
FirstEntryComplete(fes) == "emissionsGramsPerPax" \in DOMAIN fes[1]

\* isDataComplete after the forEach: no entry lacked emissionsGramsPerPax
IsDataComplete(fes) == \A i \in 1..Len(fes) : "emissionsGramsPerPax" \in DOMAIN fes[i]

\* what one settled emissions request leaves in emissionsData,
\* availableCabins and completeness
AggregateEmissions(outcome) ==
  IF outcome.ok /\ Len(outcome.data.flightEmissions) > 0
  THEN LET fes == outcome.data.flightEmissions
           positive == {k \in Range(CabinKeys) : SumKey(fes, k) > 0}
       IN  [emissionsGramsPerPax |-> [k \in positive |-> SumKey(fes, k)],
            availableCabinClasses |-> AvailableCabins(fes),
            emissionsCompleteness |-> IsDataComplete(fes)]
  ELSE [emissionsGramsPerPax |-> Null, availableCabinClasses |-> <<>>, emissionsCompleteness |-> FALSE]

\* offer.emissionsGramsPerPax = ...; offer.availableCabinClasses = ...;
\* offer.emissionsCompleteness = ...
Attach(offer, e) == e @@ offer

\* transformDuffelToAmadeus
transformDuffelToAmadeus(duffelOffer) ==
  LET segment(seg) ==
        [departure |-> [iataCode |-> seg.origin.iata_code, at |-> seg.departing_at],
         arrival |-> [iataCode |-> seg.destination.iata_code, at |-> seg.arriving_at],
         carrierCode |-> seg.marketing_carrier.iata_code,
         number |-> seg.marketing_carrier_flight_number,
         aircraft |-> [code |-> IF seg.aircraft = Null THEN "" ELSE seg.aircraft.iata_code],
         duration |-> seg.duration]
      itinerary(slice) == [duration |-> slice.duration, segments |-> Map(slice.segments, segment)]
      field(name) == IF name \in DOMAIN duffelOffer THEN duffelOffer[name] ELSE Null
  IN  [id |-> duffelOffer.id,
       itineraries |-> Map(duffelOffer.slices, itinerary),
       price |-> [total |-> duffelOffer.total_amount, currency |-> duffelOffer.total_currency],
       emissionsGramsPerPax |-> field("emissionsGramsPerPax"),
       availableCabinClasses |-> field("availableCabinClasses"),
       emissionsCompleteness |-> field("emissionsCompleteness")]

(***************************************************************************)
(* State.                                                                  *)
(***************************************************************************)
VARIABLES
  flightSearchInProgress,  \* the mutex of POST /date
  requestCounter,          \* requests of POST /date received so far
  requestCache,            \* cacheKey -> [data, timestamp]
  now,                     \* Date.now()
  pc,                      \* per request: the await it is suspended at
  body,                    \* per request: req.body
  typicalEmissions,        \* per request: local of processFlightSearch
  allFlightOffers,         \* per request: local of processFlightSearch
  usingDuffel,             \* per request: local of processFlightSearch
  groupedOffers,           \* per request: the groups, in Object.values order
  pending,                 \* per request: groups whose emissions call is in flight
  response,                \* per request: the HTTP response sent
  calls,                   \* per request: outbound calls issued, in order
  settled,                 \* per request: position in calls -> outcome, once settled
  airPc,                   \* per airport search: the await it is suspended at
  airKeyword,              \* per airport search: req.query.keyword
  airResponse,             \* per airport search: the HTTP response sent
  airCalls,                \* per airport search: outbound calls issued, in order
  airSettled,              \* per airport search: position in airCalls -> outcome
  flights,                 \* results page: the offers of the last response
  loading,                 \* results page: a search is awaiting its response
  error,                   \* results page: the error message, '' when none
  searchPerformed,         \* results page: a search has been started
  searchedCabinClass,      \* results page: cabin class of the last search shown
  pageTypicalEmissions,    \* results page: typicalEmissions of the last response
  sortBy,                  \* results page: the selected sort key
  priceRange,              \* results page: [low, high] of the price filter
  durationRange,           \* results page: [low, high] of the duration filter, minutes
  co2Range,                \* results page: [low, high] of the CO2 filter, doubles (kg)
  stopsFilter,             \* results page: 'any', '0', '1' or '2'
  searchData,              \* results page: the argument of the running handleSearch
  delivered,               \* results page: what the last fetch settled with
  awaiting,                \* results page: the await handleSearch is suspended at
  effect                   \* results page: the range-reset effect of a committed render
                           \* whose updates have not been rendered yet

globalVars == <<flightSearchInProgress, requestCounter, requestCache>>
reqVars == <<pc, body, typicalEmissions, allFlightOffers, usingDuffel, groupedOffers,
             pending, response, calls, settled>>
airVars == <<airPc, airKeyword, airResponse, airCalls, airSettled>>
pageVars == <<flights, loading, error, searchPerformed, searchedCabinClass, pageTypicalEmissions,
              sortBy, priceRange, durationRange, co2Range, stopsFilter, searchData, delivered,
              awaiting, effect>>
vars == <<globalVars, now, reqVars, airVars, pageVars>>

NoResponse == [status |-> 0]

\* no effect is waiting
NoEffect == [pending |-> FALSE]
Json(status, data) == [status |-> status, body |-> data]

InProgressMessage == "Flight search already in progress"
BothFailedMessage == "Failed to fetch flight offers from both APIs."
ProcessingMessage == "Failed to process flight search."

Init ==
  /\ flightSearchInProgress = FALSE
  /\ requestCounter = 0
  /\ requestCache = [k \in {} |-> Null]
  /\ now = 0
  /\ pc = [r \in Requests |-> "new"]
  /\ body = [r \in Requests |-> Null]
  /\ typicalEmissions = [r \in Requests |-> Null]
  /\ allFlightOffers = [r \in Requests |-> <<>>]
  /\ usingDuffel = [r \in Requests |-> FALSE]
  /\ groupedOffers = [r \in Requests |-> <<>>]
  /\ pending = [r \in Requests |-> {}]
  /\ response = [r \in Requests |-> NoResponse]
  /\ calls = [r \in Requests |-> <<>>]
  /\ settled = [r \in Requests |-> [j \in {} |-> Null]]
  /\ airPc = [a \in AirRequests |-> "new"]
  /\ airKeyword = [a \in AirRequests |-> Undefined]
  /\ airResponse = [a \in AirRequests |-> NoResponse]
  /\ airCalls = [a \in AirRequests |-> <<>>]
  /\ airSettled = [a \in AirRequests |-> [j \in {} |-> Null]]
  /\ flights = <<>>
  /\ loading = FALSE
  /\ error = ""
  /\ searchPerformed = FALSE
  /\ searchedCabinClass = "ECONOMY"
  /\ pageTypicalEmissions = Null
  /\ sortBy = "co2_lowest"
  /\ priceRange = <<0, 10000>>
  /\ durationRange = <<0, 1440>>
  /\ co2Range = <<NumberOfTenths(0), NumberOfTenths(10000)>>
  /\ stopsFilter = "any"
  /\ searchData = Null
  /\ delivered = NoResponse
  /\ awaiting = "none"
  /\ effect = NoEffect

Call(api) == [api |-> api]

\* the call at position i of the request's calls has settled with outcome o
Settle(r, i, o) ==
  settled' = [settled EXCEPT ![r] = [j \in DOMAIN @ \cup {i} |-> IF j = i THEN o ELSE @[j]]]

\* requestCache.set(cacheKey, {data, timestamp: Date.now()})
CacheSet(cache, key, data, t) ==
  [k \in DOMAIN cache \cup {key} |-> IF k = key THEN [data |-> data, timestamp |-> t] ELSE cache[k]]

\* requestCache.delete(cacheKey)
CacheDelete(cache, key) == [k \in DOMAIN cache \ {key} |-> cache[k]]

(***************************************************************************)
(* POST /date up to its first await: the admission check, the cache lookup *)
(* and, on a miss, the typical-emissions request processFlightSearch       *)
(* issues before it suspends.                                              *)
(***************************************************************************)
\* wasAlreadyInProgress = flightSearchInProgress; flightSearchInProgress = true
AcquireMutexNoSet(inProgress) ==
  [wasAlreadyInProgress |-> inProgress, flightSearchInProgress |-> inProgress]

AcquireMutex(inProgress) ==
  [wasAlreadyInProgress |-> inProgress, flightSearchInProgress |-> TRUE]

\* a rejection that runs the finally block as the admitted paths do
RejectAndRelease(r) ==
  /\ flightSearchInProgress' = FALSE
  /\ response' = [response EXCEPT ![r] = Json(200, [error |-> InProgressMessage])]
  /\ pc' = [pc EXCEPT ![r] = "done"]
  /\ UNCHANGED <<requestCache, calls>>

\* the duplicate is rejected before the try block: the finally does not run
Reject(r) ==
  /\ flightSearchInProgress' = AcquireMutex(flightSearchInProgress).flightSearchInProgress
  /\ response' = [response EXCEPT ![r] = Json(200, [error |-> InProgressMessage])]
  /\ pc' = [pc EXCEPT ![r] = "done"]
  /\ UNCHANGED <<requestCache, calls>>

\* the first outbound call of processFlightSearch
FirstCall == Call("typicalEmissions")

PostDate(r, b) ==
  /\ pc[r] = "new"
  /\ r = requestCounter + 1
  /\ requestCounter' = requestCounter + 1
  /\ body' = [body EXCEPT ![r] = b]
  /\ LET key == cacheKey(b)
     IN  IF AcquireMutex(flightSearchInProgress).wasAlreadyInProgress
         THEN Reject(r)
         ELSE IF key \in DOMAIN requestCache /\ CacheFresh(requestCache[key], now)
         THEN \* cache hit: respond, then the finally releases the mutex
              /\ response' = [response EXCEPT ![r] = Json(200, requestCache[key].data)]
              /\ pc' = [pc EXCEPT ![r] = "done"]
              /\ flightSearchInProgress' = FALSE
              /\ UNCHANGED <<requestCache, calls>>
         ELSE \* miss or expired entry: processFlightSearch runs to its first await
              /\ requestCache' = CacheDelete(requestCache, key)
              /\ flightSearchInProgress' = AcquireMutex(flightSearchInProgress).flightSearchInProgress
              /\ calls' = [calls EXCEPT ![r] = <<FirstCall>>]
              /\ pc' = [pc EXCEPT ![r] = "typical"]
              /\ UNCHANGED response
  /\ UNCHANGED <<now, typicalEmissions, allFlightOffers, usingDuffel, groupedOffers, pending,
                 settled, airVars, pageVars>>

\* typicalEmissions after the try/catch around the typical-emissions call
TypicalValue(o) ==
  IF o.ok /\ Len(o.data.typicalFlightEmissions) > 0
          /\ "emissionsGramsPerPax" \in DOMAIN o.data.typicalFlightEmissions[1]
  THEN o.data.typicalFlightEmissions[1].emissionsGramsPerPax
  ELSE Null

(***************************************************************************)
(* The ways processFlightSearch and the handler end.                       *)
(***************************************************************************)
\* an error path that skips the finally block
FailNoRelease(r, message) ==
  /\ response' = [response EXCEPT ![r] = Json(500, [error |-> message])]
  /\ pc' = [pc EXCEPT ![r] = "done"]
  /\ UNCHANGED <<flightSearchInProgress, requestCounter, requestCache, allFlightOffers,
                 groupedOffers, pending, calls>>

\* an error path that answers as if no flight had been found
FailAsEmpty(r, message) ==
  /\ response' = [response EXCEPT ![r] =
       Json(200, [offers |-> <<>>, typicalEmissions |-> typicalEmissions[r]])]
  /\ pc' = [pc EXCEPT ![r] = "done"]
  /\ flightSearchInProgress' = FALSE
  /\ UNCHANGED <<requestCounter, requestCache, allFlightOffers, groupedOffers, pending, calls>>

\* the failure is stored in the cache before the response is sent
FailCached(r, message) ==
  /\ requestCache' = CacheSet(requestCache, cacheKey(body[r]), [error |-> message], now)
  /\ response' = [response EXCEPT ![r] = Json(500, [error |-> message])]
  /\ pc' = [pc EXCEPT ![r] = "done"]
  /\ flightSearchInProgress' = FALSE
  /\ UNCHANGED <<requestCounter, allFlightOffers, groupedOffers, pending, calls>>

\* an exception reaches the handler's catch: HTTP 500, then the finally
Fail(r, message) ==
  /\ response' = [response EXCEPT ![r] = Json(500, [error |-> message])]
  /\ pc' = [pc EXCEPT ![r] = "done"]
  /\ flightSearchInProgress' = FALSE
  /\ UNCHANGED <<requestCounter, requestCache, allFlightOffers, groupedOffers, pending, calls>>

\* responseData is built, cached and returned; res.json, then the finally
Resolve(r, offers) ==
  LET responseData == [offers |-> offers, typicalEmissions |-> typicalEmissions[r]]
  IN  /\ requestCache' = CacheSet(requestCache, cacheKey(body[r]), responseData, now)
      /\ response' = [response EXCEPT ![r] = Json(200, responseData)]
      /\ pc' = [pc EXCEPT ![r] = "done"]
      /\ flightSearchInProgress' = FALSE
      /\ UNCHANGED requestCounter

\* the typical-emissions call settles and fails the search when it fails
TypicalSettleNoCatch(r, o) ==
  /\ pc[r] = "typical"
  /\ Settle(r, Len(calls[r]), o)
  /\ IF o.ok
     THEN /\ typicalEmissions' = [typicalEmissions EXCEPT ![r] = TypicalValue(o)]
          /\ calls' = [calls EXCEPT ![r] = Append(@, Call("amadeusFlightOffersSearch"))]
          /\ pc' = [pc EXCEPT ![r] = "amadeus"]
          /\ UNCHANGED <<globalVars, allFlightOffers, groupedOffers, pending, response>>
     ELSE /\ Fail(r, ProcessingMessage)
          /\ UNCHANGED typicalEmissions
  /\ UNCHANGED <<now, body, usingDuffel, airVars, pageVars>>

\* the typical-emissions call settles; the Amadeus search is issued
TypicalSettle(r, o) ==
  /\ pc[r] = "typical"
  /\ Settle(r, Len(calls[r]), o)
  /\ typicalEmissions' = [typicalEmissions EXCEPT ![r] = TypicalValue(o)]
  /\ calls' = [calls EXCEPT ![r] = Append(@, Call("amadeusFlightOffersSearch"))]
  /\ pc' = [pc EXCEPT ![r] = "amadeus"]
  /\ UNCHANGED <<globalVars, now, body, allFlightOffers, usingDuffel, groupedOffers, pending,
                 response, airVars, pageVars>>

\* an offer the grouping cannot read (no itineraries, no slices)
Unreadable(offer, duffel) ==
  IF duffel THEN "slices" \notin DOMAIN offer ELSE "itineraries" \notin DOMAIN offer

EmissionsCall(rep, duffel) ==
  [api |-> "flightEmissions", representative |-> rep.id, flights |-> FlightsToCalculate(rep, duffel)]

\* the second try block of processFlightSearch up to the await of Promise.all:
\* grouping, and one emissions request issued per group
StartEnrichment(r, offers, duffel) ==
  IF \E i \in 1..Len(offers) : Unreadable(offers[i], duffel)
  THEN Fail(r, ProcessingMessage)
  ELSE IF Len(offers) > 0
  THEN LET groups == GroupOffers(offers, duffel)
           issued == [g \in 1..Len(groups) |-> EmissionsCall(offers[groups[g].members[1]], duffel)]
       IN  /\ allFlightOffers' = [allFlightOffers EXCEPT ![r] = offers]
           /\ groupedOffers' = [groupedOffers EXCEPT ![r] = groups]
           /\ pending' = [pending EXCEPT ![r] = 1..Len(groups)]
           /\ calls' = [calls EXCEPT ![r] = @ \o issued]
           /\ pc' = [pc EXCEPT ![r] = "emissions"]
           /\ UNCHANGED <<globalVars, response>>
  ELSE /\ Resolve(r, <<>>)
       /\ allFlightOffers' = [allFlightOffers EXCEPT ![r] = offers]
       /\ UNCHANGED <<groupedOffers, pending, calls>>

\* the call issued in the catch block of the Amadeus search
FallbackCallRetry == Call("amadeusFlightOffersSearch")

FallbackCall == Call("duffelOfferRequestsCreate")

\* an empty Amadeus result is treated like a failed search: the Duffel
\* fallback is called
AmadeusSettleEmptyFallsBack(r, o) ==
  /\ pc[r] = "amadeus"
  /\ Settle(r, Len(calls[r]), o)
  /\ IF o.ok /\ Len(o.data) > 0
     THEN /\ StartEnrichment(r, o.data, FALSE)
          /\ UNCHANGED usingDuffel
     ELSE /\ usingDuffel' = [usingDuffel EXCEPT ![r] = TRUE]
          /\ calls' = [calls EXCEPT ![r] = Append(@, FallbackCall)]
          /\ pc' = [pc EXCEPT ![r] = "duffelCreate"]
          /\ UNCHANGED <<globalVars, allFlightOffers, groupedOffers, pending, response>>
  /\ UNCHANGED <<now, body, typicalEmissions, airVars, pageVars>>

\* the Amadeus search settles: enrichment starts, or the Duffel fallback
AmadeusSettle(r, o) ==
  /\ pc[r] = "amadeus"
  /\ Settle(r, Len(calls[r]), o)
  /\ IF o.ok
     THEN /\ StartEnrichment(r, o.data, FALSE)
          /\ UNCHANGED usingDuffel
     ELSE /\ usingDuffel' = [usingDuffel EXCEPT ![r] = TRUE]
          /\ calls' = [calls EXCEPT ![r] = Append(@, FallbackCall)]
          /\ pc' = [pc EXCEPT ![r] = "duffelCreate"]
          /\ UNCHANGED <<globalVars, allFlightOffers, groupedOffers, pending, response>>
  /\ UNCHANGED <<now, body, typicalEmissions, airVars, pageVars>>

\* duffel.offerRequests.create settles
DuffelCreateSettle(r, o) ==
  /\ pc[r] = "duffelCreate"
  /\ Settle(r, Len(calls[r]), o)
  /\ IF o.ok
     THEN /\ calls' = [calls EXCEPT ![r] = Append(@, Call("duffelOffersList"))]
          /\ pc' = [pc EXCEPT ![r] = "duffelList"]
          /\ UNCHANGED <<globalVars, allFlightOffers, groupedOffers, pending, response>>
     ELSE Fail(r, BothFailedMessage)
  /\ UNCHANGED <<now, body, typicalEmissions, usingDuffel, airVars, pageVars>>

\* duffel.offers.list settles: deduplication, then enrichment
DuffelListSettle(r, o) ==
  /\ pc[r] = "duffelList"
  /\ Settle(r, Len(calls[r]), o)
  /\ IF o.ok /\ \A i \in 1..Len(o.data) : ~Unreadable(o.data[i], TRUE)
     THEN StartEnrichment(r, DedupDuffel(o.data), TRUE)
     ELSE Fail(r, BothFailedMessage)
  /\ UNCHANGED <<now, body, typicalEmissions, usingDuffel, airVars, pageVars>>

\* position in calls of the emissions request of group g
EmissionsCallIndex(r, g) == Len(calls[r]) - Len(groupedOffers[r]) + g

\* offersInGroup.forEach over every offer of the search
EveryOffer(r, g) == 1..Len(allFlightOffers[r])

\* offersInGroup: the positions of the offers of group g
OffersInGroup(r, g) == Range(groupedOffers[r][g].members)

\* the enrichment is over as soon as one group's request has settled
FirstSettled(r, g) == TRUE

\* Promise.all resolves when the last pending request settles
AllSettled(r, g) == pending[r] = {g}

\* the emissions request of group g settles: its result is attached to the
\* group's offers; when it was the last one, Promise.all resolves and the
\* response is assembled, cached and sent
EmissionsSettle(r, g, o) ==
  /\ pc[r] = "emissions"
  /\ g \in pending[r]
  /\ Settle(r, EmissionsCallIndex(r, g), o)
  /\ LET e == AggregateEmissions(o)
         attached == [i \in 1..Len(allFlightOffers[r]) |->
                        IF i \in OffersInGroup(r, g) THEN Attach(allFlightOffers[r][i], e)
                        ELSE allFlightOffers[r][i]]
         final == IF usingDuffel[r] THEN Map(attached, transformDuffelToAmadeus) ELSE attached
     IN  /\ pending' = [pending EXCEPT ![r] = @ \ {g}]
         /\ IF AllSettled(r, g)
            THEN /\ Resolve(r, final)
                 /\ allFlightOffers' = [allFlightOffers EXCEPT ![r] = final]
            ELSE /\ allFlightOffers' = [allFlightOffers EXCEPT ![r] = attached]
                 /\ UNCHANGED <<globalVars, pc, response>>
  /\ UNCHANGED <<now, body, typicalEmissions, usingDuffel, groupedOffers, calls, airVars, pageVars>>

\* time passes and a watchdog releases the admission flag
TickReleases ==
  /\ now + TickStep <= MaxTicks * TickStep
  /\ now' = now + TickStep
  /\ flightSearchInProgress' = FALSE
  /\ UNCHANGED <<requestCounter, requestCache, reqVars, airVars, pageVars>>

\* time passes
Tick ==
  /\ now + TickStep <= MaxTicks * TickStep
  /\ now' = now + TickStep
  /\ UNCHANGED <<globalVars, reqVars, airVars, pageVars>>

(***************************************************************************)
(* GET /airport-search.                                                    *)
(***************************************************************************)
AirKeywords == {Undefined, "", "L", "LH", "LHR"}

LocLHR == [iataCode |-> "LHR", name |-> "HEATHROW",
           address |-> [cityName |-> "LONDON", countryName |-> "UNITED KINGDOM"]]
LocBare == [iataCode |-> "LHX", name |-> "LA HARPE"]

SugLHR == [type |-> "airport", iata_code |-> "LHR", name |-> "Heathrow",
           city |-> [name |-> "London"]]
SugCity == [type |-> "city", iata_code |-> "LON", name |-> "London"]

AirportAmadeusOutcomes == {Rejected, Resolved(<<>>), Resolved(<<LocLHR, LocBare>>)}
AirportDuffelOutcomes == {Rejected, Resolved(<<SugCity, SugLHR>>)}

\* rec.outer?.field || ''
Opt(rec, outer, field) ==
  IF outer \in DOMAIN rec /\ field \in DOMAIN rec[outer] THEN rec[outer][field] ELSE ""

\* the ', ' + part of displayName, empty when the part is
Suffix(str) == IF str = "" THEN "" ELSE ", " \o str

formatAmadeusLocation(location) ==
  LET city == Opt(location, "address", "cityName")
      country == Opt(location, "address", "countryName")
  IN  [iataCode |-> location.iataCode, name |-> location.name,
       cityName |-> city, countryName |-> country,
       displayName |-> location.iataCode \o " - " \o location.name \o Suffix(city) \o Suffix(country)]

formatDuffelAirport(airport) ==
  LET city == Opt(airport, "city", "name")
      country == IF "city" \in DOMAIN airport THEN Opt(airport.city, "country", "name") ELSE ""
  IN  [iataCode |-> airport.iata_code, name |-> airport.name,
       cityName |-> city, countryName |-> country,
       displayName |-> airport.iata_code \o " - " \o airport.name \o Suffix(city) \o Suffix(country)]

\* only a missing keyword is short-circuited
KeywordMissing(keyword) == keyword = Undefined

\* !keyword || keyword.length < 2
KeywordTooShort(keyword) == keyword = Undefined \/ Len(keyword) < 2

AirSettle(a, o) ==
  airSettled' = [airSettled EXCEPT ![a] =
    [j \in DOMAIN @ \cup {Len(airCalls[a])} |-> IF j = Len(airCalls[a]) THEN o ELSE @[j]]]

\* the handler up to its first await
AirportSearch(a, keyword) ==
  /\ airPc[a] = "new"
  /\ airKeyword' = [airKeyword EXCEPT ![a] = keyword]
  /\ IF KeywordTooShort(keyword)
     THEN /\ airResponse' = [airResponse EXCEPT ![a] = Json(200, [data |-> <<>>])]
          /\ airPc' = [airPc EXCEPT ![a] = "done"]
          /\ UNCHANGED airCalls
     ELSE /\ airCalls' = [airCalls EXCEPT ![a] = <<Call("amadeusLocations")>>]
          /\ airPc' = [airPc EXCEPT ![a] = "amadeus"]
          /\ UNCHANGED airResponse
  /\ UNCHANGED <<globalVars, now, reqVars, pageVars, airSettled>>

\* amadeus.referenceData.locations.get settles
AirportAmadeusSettle(a, o) ==
  /\ airPc[a] = "amadeus"
  /\ AirSettle(a, o)
  /\ IF o.ok
     THEN /\ airResponse' = [airResponse EXCEPT ![a] =
               Json(200, [data |-> Map(o.data, formatAmadeusLocation)])]
          /\ airPc' = [airPc EXCEPT ![a] = "done"]
          /\ UNCHANGED airCalls
     ELSE /\ airCalls' = [airCalls EXCEPT ![a] = Append(@, Call("duffelSuggestions"))]
          /\ airPc' = [airPc EXCEPT ![a] = "duffel"]
          /\ UNCHANGED airResponse
  /\ UNCHANGED <<globalVars, now, reqVars, pageVars, airKeyword>>

\* duffel.suggestions.list settles
AirportDuffelSettle(a, o) ==
  /\ airPc[a] = "duffel"
  /\ AirSettle(a, o)
  /\ airResponse' = [airResponse EXCEPT ![a] =
       IF o.ok
       THEN LET isAirport(sug) == sug.type = "airport"
            IN  Json(200, [data |-> Map(SelectSeq(o.data, isAirport), formatDuffelAirport)])
       ELSE Json(500, [error |-> "Failed to search airports with both APIs", data |-> <<>>])]
  /\ airPc' = [airPc EXCEPT ![a] = "done"]
  /\ UNCHANGED <<globalVars, now, reqVars, pageVars, airKeyword, airCalls>>

(***************************************************************************)
(* The results page (FlightSearchPage) and its helpers.  Prices are whole  *)
(* euros and durations whole minutes.                                      *)
(***************************************************************************)
CabinClasses == <<"ECONOMY", "PREMIUM_ECONOMY", "BUSINESS", "FIRST">>

\* the characters of a cabin class name
ClassChars(class) ==
  CASE class = "ECONOMY" -> <<"E", "C", "O", "N", "O", "M", "Y">>
    [] class = "PREMIUM_ECONOMY" ->
         <<"P", "R", "E", "M", "I", "U", "M", "_", "E", "C", "O", "N", "O", "M", "Y">>
    [] class = "BUSINESS" -> <<"B", "U", "S", "I", "N", "E", "S", "S">>
    [] class = "FIRST" -> <<"F", "I", "R", "S", "T">>

UpperLetters == <<"A", "B", "C", "D", "E", "F", "G", "H", "I", "J", "K", "L", "M",
                  "N", "O", "P", "Q", "R", "S", "T", "U", "V", "W", "X", "Y", "Z">>
LowerLetters == <<"a", "b", "c", "d", "e", "f", "g", "h", "i", "j", "k", "l", "m",
                  "n", "o", "p", "q", "r", "s", "t", "u", "v", "w", "x", "y", "z">>

\* String.prototype.toLowerCase, character by character
toLowerCase(chars) ==
  LET lower(ch) == IF \E n \in 1..Len(UpperLetters) : UpperLetters[n] = ch
                   THEN LowerLetters[CHOOSE n \in 1..Len(UpperLetters) : UpperLetters[n] = ch]
                   ELSE ch
  IN  [i \in 1..Len(chars) |-> lower(chars[i])]

\* String.prototype.replace(ch, ''): the first occurrence of ch is removed
RemoveFirst(chars, ch) ==
  IF \E i \in 1..Len(chars) : chars[i] = ch
  THEN LET at == CHOOSE i \in 1..Len(chars) : chars[i] = ch /\ \A j \in 1..(i - 1) : chars[j] # ch
       IN  SubSeq(chars, 1, at - 1) \o SubSeq(chars, at + 1, Len(chars))
  ELSE chars

\* selectedClass.toLowerCase().replace('_', '')
classKey(selectedClass) == Join(RemoveFirst(toLowerCase(ClassChars(selectedClass)), "_"), "")

\* the key whose upper-case name is the selected class
classKeyCamelCase(selectedClass) ==
  CHOOSE k \in Range(CabinKeys) : CabinName(k) = selectedClass

\* a value that is null (the model keeps null as a record of its own)
IsNull(x) == DOMAIN x = {"null"}

\* (emission / 1000).toFixed(1): the decimal with one digit after the point
\* nearest to the double emission / 1000, the larger one when the double is
\* half-way; held as the count of tenths.  A count of grams that ends in 50
\* is half-way as a decimal, and its double lies below, on or above it.
ToFixed1(grams) ==
  LET whole == grams \div 100
      rest == grams % 100
  IN  [tenths |-> IF rest < 50 THEN whole
                  ELSE IF rest > 50 THEN whole + 1
                  ELSE IF QuotientError(grams, 1000) < 0 THEN whole ELSE whole + 1]

\* getCO2EmissionForClass: the one-decimal string, or null
getCO2EmissionForClass(flight, selectedClass) ==
  IF IsNull(flight.emissionsGramsPerPax) THEN Null
  ELSE LET key == classKey(selectedClass)
           grams == flight.emissionsGramsPerPax
       IN  IF key \in DOMAIN grams /\ grams[key] > 0 THEN ToFixed1(grams[key]) ELSE Null

\* parseFloat(getCO2EmissionForClass(...)) || 0, as the count of tenths of
\* the string: parseFloat is increasing in it, so the differences the sort
\* takes keep their sign
Co2OrZero(flight, selectedClass) ==
  LET co2 == getCO2EmissionForClass(flight, selectedClass)
  IN  IF IsNull(co2) THEN 0 ELSE co2.tenths

\* parseFloat of the price strings the offers carry
ParseFloat(str) ==
  CASE str = "90.00" -> 90
    [] str = "250.00" -> 250
    [] str = "400.00" -> 400
    [] str = "500.00" -> 500
    [] str = "650.00" -> 650
    [] str = "700.00" -> 700

\* getPriceForClass
getPriceForClass(flight, selectedClass) ==
  LET hasCabin(tp) ==
        /\ "fareDetailsBySegment" \in DOMAIN tp
        /\ \E i \in 1..Len(tp.fareDetailsBySegment) : tp.fareDetailsBySegment[i].cabin = selectedClass
      pricings == IF "travelerPricings" \in DOMAIN flight
                  THEN SelectSeq(flight.travelerPricings, hasCabin) ELSE <<>>
  IN  IF /\ "allCabinPrices" \in DOMAIN flight
         /\ selectedClass \in DOMAIN flight.allCabinPrices
         /\ flight.allCabinPrices[selectedClass].price # ""
      THEN ParseFloat(flight.allCabinPrices[selectedClass].price)
      ELSE IF /\ Len(pricings) > 0
              /\ "price" \in DOMAIN pricings[1]
              /\ "total" \in DOMAIN pricings[1].price
      THEN ParseFloat(pricings[1].price.total)
      ELSE IF "price" \in DOMAIN flight /\ "total" \in DOMAIN flight.price
      THEN ParseFloat(flight.price.total)
      ELSE 0

\* the groups the regular expression of parseDuration captures, after parseInt
IsoParts(duration) ==
  CASE duration = "PT1H" -> [days |-> 0, hours |-> 1, minutes |-> 0]
    [] duration = "PT5H" -> [days |-> 0, hours |-> 5, minutes |-> 0]
    [] duration = "PT6H40M" -> [days |-> 0, hours |-> 6, minutes |-> 40]
    [] duration = "PT8H" -> [days |-> 0, hours |-> 8, minutes |-> 0]
    [] duration = "PT13H" -> [days |-> 0, hours |-> 13, minutes |-> 0]

\* parseDuration of an ISO 8601 duration
parseDuration(duration) ==
  IF duration = "" THEN 0
  ELSE LET m == IsoParts(duration)
       IN  (m.days * 24 * 60) + (m.hours * 60) + m.minutes

\* new Date(at).getTime() in minutes, from the midnight before
DateMinutes(at) ==
  CASE at = T08 -> 8 * 60
    [] at = T10 -> 10 * 60
    [] at = T13 -> 13 * 60

RECURSIVE SumSeq(_)
SumSeq(ns) == IF Len(ns) = 0 THEN 0 ELSE Head(ns) + SumSeq(Tail(ns))

\* getFlightDuration: the sum over the itineraries, each by its own duration
\* field or else by its first departure and last arrival
getFlightDuration(flight) ==
  LET ofItinerary(itin) ==
        IF "segments" \notin DOMAIN itin \/ Len(itin.segments) = 0 THEN 0
        ELSE IF "duration" \in DOMAIN itin /\ itin.duration # "" THEN parseDuration(itin.duration)
        ELSE LET firstSegment == itin.segments[1]
                 lastSegment == itin.segments[Len(itin.segments)]
             IN  IF "at" \notin DOMAIN firstSegment.departure \/ "at" \notin DOMAIN lastSegment.arrival
                 THEN 0
                 ELSE LET elapsed == DateMinutes(lastSegment.arrival.at)
                                       - DateMinutes(firstSegment.departure.at)
                      IN  IF elapsed > 0 THEN elapsed ELSE 0
  IN  IF "itineraries" \in DOMAIN flight THEN SumSeq(Map(flight.itineraries, ofItinerary)) ELSE 0

(***************************************************************************)
(* Offers as the page receives them: provider offers carrying the three    *)
(* emissions fields the server attaches.                                   *)
(***************************************************************************)
AmLeg(carrier, number, at, arrivesAt, from, to) ==
  [carrierCode |-> carrier, number |-> number,
   departure |-> [iataCode |-> from, at |-> at], arrival |-> [iataCode |-> to, at |-> arrivesAt]]

\* direct, one hour
PgShort == [id |-> "s", price |-> [total |-> "90.00", currency |-> "EUR"],
            itineraries |-> << [duration |-> "PT1H",
                                segments |-> << AmLeg("BA", "117", T10, T13, "LHR", "JFK") >>] >>]
\* one stop, 6 h 40 min
PgLong == [id |-> "l", price |-> [total |-> "400.00", currency |-> "EUR"],
           itineraries |-> << [duration |-> "PT6H40M",
                               segments |-> << AmLeg("AA", "101", T08, T10, "LHR", "BOS"),
                                               AmLeg("AA", "202", T13, T13, "BOS", "JFK") >>] >>]
\* two stops, five hours
PgMulti == [id |-> "m", price |-> [total |-> "250.00", currency |-> "EUR"],
            itineraries |-> << [duration |-> "PT5H",
                                segments |-> << AmLeg("AA", "101", T08, T10, "LHR", "BOS"),
                                                AmLeg("AA", "202", T10, T13, "BOS", "ORD"),
                                                AmLeg("BA", "117", T13, T13, "ORD", "JFK") >>] >>]
\* direct, no duration field on the itinerary, an economy fare among the
\* traveler pricings
PgNoDuration ==
  [id |-> "n", price |-> [total |-> "500.00", currency |-> "EUR"],
   itineraries |-> << [segments |-> << AmLeg("BA", "117", T08, T10, "LHR", "JFK") >>] >>,
   travelerPricings |-> << [fareDetailsBySegment |-> << [cabin |-> "ECONOMY"] >>,
                            price |-> [total |-> "700.00"]] >>]
\* one stop, leaving later than PgLong; its second segment will lack emissions
PgIncomplete ==
  [id |-> "i", price |-> [total |-> "650.00", currency |-> "EUR"],
   itineraries |-> << [duration |-> "PT6H40M",
                       segments |-> << AmLeg("AA", "101", T10, T13, "LHR", "BOS"),
                                       AmLeg("AA", "202", T13, T13, "BOS", "JFK") >>] >>]
\* direct, leaving later than PgShort; its emissions request will fail
PgFailed ==
  [id |-> "f", price |-> [total |-> "500.00", currency |-> "EUR"],
   itineraries |-> << [duration |-> "PT1H",
                       segments |-> << AmLeg("BA", "117", T13, T13, "LHR", "JFK") >>] >>]

\* direct, eight hours, without any price field
PgNoPrice == [id |-> "p",
              itineraries |-> << [duration |-> "PT8H",
                                  segments |-> << AmLeg("BA", "117", T08, T13, "LHR", "JFK") >>] >>]
\* one stop, without any price field, without a duration field and without
\* arrival times
PgNoTimes == [id |-> "t",
              itineraries |-> << [segments |-> << AmSeg("AA", "101", T08, "LHR", "BOS"),
                                                  AmSeg("AA", "202", T13, "BOS", "JFK") >>] >>]

\* an offer after the enrichment of its group
Enrich(offer, outcome) == Attach(offer, AggregateEmissions(outcome))

\* a response of the Amadeus path, in the provider's order
PageOffers ==
  << Enrich(PgLong, EmissionsMixed(2)),
     Enrich(PgIncomplete, EmissionsLastMissing(2)),
     Enrich(PgShort, EmissionsAll(1)),
     Enrich(PgFailed, Rejected),
     Enrich(PgMulti, EmissionsAll(3)),
     Enrich(PgNoDuration, Resolved([flightEmissions |-> << SegEmissionEconomy >>])) >>

\* a response of the Duffel path
PageOffersDuffel ==
  << transformDuffelToAmadeus(Enrich(DuB, EmissionsAll(2))),
     transformDuffelToAmadeus(Enrich(DuA1, EmissionsAll(1))) >>

\* a response none of whose offers has usable emissions
PageOffersNoCO2 == << Enrich(PgIncomplete, EmissionsLastMissing(2)), Enrich(PgFailed, Rejected) >>

\* a response with offers whose price or duration cannot be derived
PageOffersGaps ==
  << Enrich(PgNoPrice, EmissionsAll(1)),
     Enrich(PgShort, EmissionsAll(1)),
     Enrich(PgNoTimes, EmissionsAll(2)) >>

\* a response with one offer: every bound's minimum equals its maximum
PageOffersSingle == << Enrich(PgShort, EmissionsAll(1)) >>

\* the emissions response of a direct flight with an economy value only
EmissionsEconomy(grams) ==
  Resolved([flightEmissions |->
              << [emissionsGramsPerPax |-> [GramsEconomyOnly EXCEPT !.economy = grams]] >>])

\* a response whose offers lie a tenth of a kilogram apart: 64.05 kg (shown
\* as 64.0), 64.1 kg and 64.2 kg
PageOffersClose ==
  << Enrich(PgShort, EmissionsEconomy(64050)),
     Enrich(PgFailed, EmissionsEconomy(64100)),
     Enrich(PgNoDuration, EmissionsEconomy(64200)) >>

SearchResponse(offers, typical) == Json(200, [offers |-> offers, typicalEmissions |-> typical])

\* successful searches that found no offer
ZeroOfferResponses == {SearchResponse(<<>>, TypicalGrams), SearchResponse(<<>>, Null)}

\* fetch rejects (no connection)
FetchFailed == [status |-> 0, failed |-> "Failed to fetch"]

\* what the fetch of POST /api/date can settle with
PageResponses ==
  ZeroOfferResponses \cup
  { Json(200, [error |-> InProgressMessage]),
    SearchResponse(PageOffers, TypicalGrams),
    SearchResponse(PageOffersDuffel, Null),
    SearchResponse(PageOffersNoCO2, TypicalGrams),
    SearchResponse(PageOffersGaps, TypicalGrams),
    Json(500, [error |-> BothFailedMessage]),
    Json(500, [error |-> ProcessingMessage]),
    FetchFailed }

\* the search forms submit the fields of the body, with any cabin class
PageSearches == {[BodyA EXCEPT !.cabinClass = c] : c \in Range(CabinClasses)}

(***************************************************************************)
(* The values the page derives from its state (useMemo).                   *)
(***************************************************************************)
\* flights.filter(f => f.emissionsCompleteness && f.emissionsGramsPerPax &&
\*                     getCO2EmissionForClass(f, searchedCabinClass) !== null)
FlightsWithCO2(fl, class) ==
  LET usable(f) == /\ f.emissionsCompleteness
                   /\ ~IsNull(f.emissionsGramsPerPax)
                   /\ ~IsNull(getCO2EmissionForClass(f, class))
  IN  SelectSeq(fl, usable)

flightsWithCO2 == FlightsWithCO2(flights, searchedCabinClass)

Min(ns) == CHOOSE n \in ns : \A m \in ns : n <= m
Max(ns) == CHOOSE n \in ns : \A m \in ns : n >= m

DefaultBounds ==
  [minPrice |-> 0, maxPrice |-> 10000, minDuration |-> 0, maxDuration |-> 1440,
   minCo2 |-> 0, maxCo2 |-> 10000]

\* Math.floor and Math.ceil of the double of a one-decimal string, given and
\* returned as counts of tenths: the double lies on the same side of every
\* whole number as the decimal
FloorTenths(n) == (n \div 10) * 10
CeilTenths(n) == ((n + 9) \div 10) * 10

\* minPrice .. maxCo2
FilterBounds(fwc, class) ==
  LET positive(n) == n > 0
      price(f) == getPriceForClass(f, class)
      co2(f) == Co2OrZero(f, class)
      prices == Range(SelectSeq(Map(fwc, price), positive))
      durations == Range(SelectSeq(Map(fwc, getFlightDuration), positive))
      co2s == Range(SelectSeq(Map(fwc, co2), positive))
  IN  IF Len(fwc) = 0 \/ prices = {} \/ durations = {} \/ co2s = {}
      THEN DefaultBounds
      ELSE [minPrice |-> Min(prices), maxPrice |-> Max(prices),
            minDuration |-> Min(durations), maxDuration |-> Max(durations),
            minCo2 |-> FloorTenths(Min(co2s)), maxCo2 |-> CeilTenths(Max(co2s))]

bounds == FilterBounds(flightsWithCO2, searchedCabinClass)

SortKeys == <<"co2_lowest", "co2_highest", "price_lowest", "price_highest",
              "duration_shortest", "duration_longest">>

\* the comparator of sortedFlights with both keys lowest first
CompareAscending(a, b, class, key) ==
  CASE key \in {"co2_lowest", "co2_highest"} -> Co2OrZero(a, class) - Co2OrZero(b, class)
    [] key \in {"price_lowest", "price_highest"} -> getPriceForClass(a, class) - getPriceForClass(b, class)
    [] key \in {"duration_shortest", "duration_longest"} -> getFlightDuration(a) - getFlightDuration(b)
    [] OTHER -> 0

\* the comparator of sortedFlights
Compare(a, b, class, key) ==
  CASE key = "co2_lowest" -> Co2OrZero(a, class) - Co2OrZero(b, class)
    [] key = "co2_highest" -> Co2OrZero(b, class) - Co2OrZero(a, class)
    [] key = "price_lowest" -> getPriceForClass(a, class) - getPriceForClass(b, class)
    [] key = "price_highest" -> getPriceForClass(b, class) - getPriceForClass(a, class)
    [] key = "duration_shortest" -> getFlightDuration(a) - getFlightDuration(b)
    [] key = "duration_longest" -> getFlightDuration(b) - getFlightDuration(a)
    [] OTHER -> 0

RECURSIVE SortFlightsUnstable(_, _, _)
\* a sort that puts an element before the elements it compares equal to
SortFlightsUnstable(fl, class, key) ==
  IF Len(fl) <= 1 THEN fl
  ELSE LET front == SortFlightsUnstable(SubSeq(fl, 1, Len(fl) - 1), class, key)
           last == fl[Len(fl)]
           before(i) == Compare(front[i], last, class, key) < 0
           n == Cardinality({i \in 1..Len(front) : before(i)})
       IN  SubSeq(front, 1, n) \o <<last>> \o SubSeq(front, n + 1, Len(front))

RECURSIVE SortFlights(_, _, _)
\* [...fl].sort(comparator): Array.prototype.sort is stable, so the last
\* element goes after every element that does not compare greater than it
SortFlights(fl, class, key) ==
  IF Len(fl) <= 1 THEN fl
  ELSE LET front == SortFlights(SubSeq(fl, 1, Len(fl) - 1), class, key)
           last == fl[Len(fl)]
           before(i) == Compare(front[i], last, class, key) <= 0
           n == Cardinality({i \in 1..Len(front) : before(i)})
       IN  SubSeq(front, 1, n) \o <<last>> \o SubSeq(front, n + 1, Len(front))

sortedFlights == SortFlights(flightsWithCO2, searchedCabinClass, sortBy)

\* parseInt(stopsFilter) for the values of the select
ParseStops(str) == CASE str = "0" -> 0 [] str = "1" -> 1 [] str = "2" -> 2

\* a range filter that leaves out a value equal to the upper bound
InRangeOpen(value, range) == value >= range[1] /\ value < range[2]

\* value >= range[0] && value <= range[1]
InRange(value, range) == value >= range[1] /\ value <= range[2]

\* co2 >= co2Range[0] && co2 <= co2Range[1], on doubles
InCo2Range(co2, range) == AtMost(range[1], co2) /\ AtMost(co2, range[2])

\* stopsFilter === 'any' || (stopsFilter === '2' ? stops >= 2 : stops === parseInt(stopsFilter))
StopsPass(f, filter) ==
  LET stops == Len(f.itineraries[1].segments) - 1
  IN  filter = "any" \/ (IF filter = "2" THEN stops >= 2 ELSE stops = ParseStops(filter))

\* sortedFlights.filter(...)
FilteredFlights(sorted, class, prices, durations, co2s, stops) ==
  LET pass(f) ==
        /\ InRange(getPriceForClass(f, class), prices)
        /\ InRange(getFlightDuration(f), durations)
        /\ ~IsNull(getCO2EmissionForClass(f, class))
        /\ InCo2Range(NumberOfTenths(getCO2EmissionForClass(f, class).tenths), co2s)
        /\ StopsPass(f, stops)
  IN  SelectSeq(sorted, pass)

filteredFlights ==
  FilteredFlights(sortedFlights, searchedCabinClass, priceRange, durationRange, co2Range, stopsFilter)

\* what the page renders below its header
View ==
  [spinner |-> loading,
   banner |-> IF error # "" THEN "Error: " \o error ELSE "",
   results |-> IF ~loading /\ searchPerformed
               THEN IF Len(flights) = 0 THEN "No Flights Found"
                    ELSE IF Len(flightsWithCO2) = 0 THEN "No Flights with CO2 Data Found"
                    ELSE "main-content-area"
               ELSE ""]

(***************************************************************************)
(* The page's handlers.  handleSearch runs in turns of the event loop: up  *)
(* to the await of fetch, from there to the await of response.json(), and  *)
(* from there to its end.  React applies the state updates of one turn     *)
(* together in one render; the effect that resets the filter ranges runs   *)
(* after the commit of a render that changed one of its dependencies.  The *)
(* app is mounted with createRoot: the effect of a render that follows a   *)
(* form or control event runs with the commit, the effect of a render that *)
(* follows a settled promise runs later, and events may be handled first.  *)
(* The updates the effect makes are rendered in a step after its body.     *)
(***************************************************************************)
\* a response whose body carries an error counts as a failed search
ResponseErrorStrict(resp) ==
  IF "failed" \in DOMAIN resp THEN resp.failed
  ELSE IF "error" \in DOMAIN resp.body THEN resp.body.error
  ELSE ""

\* the message of the error handleSearch catches, '' when it catches none:
\* fetch rejected, or !response.ok with errData.error || 'Server error.'
ResponseError(resp) ==
  IF "failed" \in DOMAIN resp THEN resp.failed
  ELSE IF resp.status \notin 200..299
  THEN IF "error" \in DOMAIN resp.body /\ resp.body.error # "" THEN resp.body.error
       ELSE "Server error."
  ELSE ""

\* data.offers || []
OffersOf(data) == IF "offers" \in DOMAIN data THEN data.offers ELSE <<>>

\* data.typicalEmissions || null
TypicalOf(data) == IF "typicalEmissions" \in DOMAIN data THEN data.typicalEmissions ELSE Null

\* the state handleSearch leaves once its fetch has settled with resp and the
\* body has been read, from the state it set when it started
AfterResponse(resp, search, class, typical) ==
  IF ResponseError(resp) # ""
  THEN [flights |-> <<>>, pageTypicalEmissions |-> typical, searchedCabinClass |-> class,
        error |-> ResponseError(resp), loading |-> FALSE]
  ELSE [flights |-> OffersOf(resp.body), pageTypicalEmissions |-> TypicalOf(resp.body),
        searchedCabinClass |-> search.cabinClass, error |-> "", loading |-> FALSE]

\* the dependencies of the effect: [minPrice, maxPrice, minDuration,
\* maxDuration, minCo2, maxCo2, flightsWithCO2.length]
EffectDeps(fl, class) ==
  <<FilterBounds(FlightsWithCO2(fl, class), class), Len(FlightsWithCO2(fl, class))>>

\* the ranges are left as they are whatever the effect was given
KeepRanges(b, size, names) == UNCHANGED <<priceRange, durationRange, co2Range>>

\* the body of the effect, with the bounds b and the flightsWithCO2.length
\* size of the render it belongs to: with a non-empty filterable set the
\* three setters are called with the bounds.  names are the ranges whose
\* update by the effect is the last one queued
ResetRanges(b, size, names) ==
  IF size > 0
  THEN /\ priceRange' = IF "price" \in names THEN <<b.minPrice, b.maxPrice>> ELSE priceRange
       /\ durationRange' = IF "duration" \in names THEN <<b.minDuration, b.maxDuration>>
                           ELSE durationRange
       /\ co2Range' = IF "co2" \in names THEN <<NumberOfTenths(b.minCo2), NumberOfTenths(b.maxCo2)>>
                      ELSE co2Range
  ELSE UNCHANGED <<priceRange, durationRange, co2Range>>

\* the effect of a render committed after a promise settled: React runs it
\* later, with the values of that render.  deps are those values, run tells
\* whether the body has run, updates the ranges whose update by the body is
\* the last one queued
Scheduled(deps) == [pending |-> TRUE, run |-> FALSE, deps |-> deps, updates |-> {"price", "duration", "co2"}]

\* a form or control event has been handled while the effect was pending.
\* When the body has not run yet, React runs it before it renders the
\* updates of the event: the updates of the body are queued after those of
\* the event.  React renders the updates of the body later and applies all
\* updates in the order they were queued, so that an event that moves one
\* of the ranges named in moved after the body has run decides that range
AfterEvent(moved) ==
  IF ~effect.pending THEN effect
  ELSE IF ~effect.run THEN [effect EXCEPT !.run = TRUE]
  ELSE [effect EXCEPT !.updates = @ \ moved]

serverVars == <<globalVars, now, reqVars, airVars>>

\* handleSearch up to the await of fetch.  The render of these updates
\* follows a form event and its effect runs with it: the filterable set is
\* empty and the body does nothing
HandleSearch(search) ==
  /\ ~loading
  /\ loading' = TRUE
  /\ error' = ""
  /\ flights' = <<>>
  /\ searchPerformed' = TRUE
  /\ searchData' = search
  /\ delivered' = NoResponse
  /\ awaiting' = "fetch"
  /\ effect' = AfterEvent({})
  /\ UNCHANGED <<searchedCabinClass, pageTypicalEmissions, sortBy, stopsFilter,
                 priceRange, durationRange, co2Range, serverVars>>

\* the state updates of the last turn of handleSearch, after resp.  Their
\* render runs a pending effect first and takes its updates along, so it
\* comes after them; its own effect is left to run later when one of the
\* dependencies has changed
Finish(resp) ==
  LET after == AfterResponse(resp, searchData, searchedCabinClass, pageTypicalEmissions)
      deps == EffectDeps(after.flights, after.searchedCabinClass)
  IN  /\ ~effect.pending
      /\ flights' = after.flights
      /\ pageTypicalEmissions' = after.pageTypicalEmissions
      /\ searchedCabinClass' = after.searchedCabinClass
      /\ error' = after.error
      /\ loading' = after.loading
      /\ awaiting' = "none"
      /\ effect' = IF deps # EffectDeps(flights, searchedCabinClass) THEN Scheduled(deps)
                   ELSE NoEffect

\* the fetch settles.  When it rejects, the catch and the finally run in
\* this turn; when it resolves, handleSearch reads response.ok and suspends
\* at the await of response.json() without a state update
FetchSettles(resp) ==
  /\ awaiting = "fetch"
  /\ delivered' = resp
  /\ IF "failed" \in DOMAIN resp
     THEN Finish(resp)
     ELSE /\ awaiting' = "json"
          /\ UNCHANGED <<flights, pageTypicalEmissions, searchedCabinClass, error, loading,
                         effect>>
  /\ UNCHANGED <<searchPerformed, sortBy, stopsFilter, searchData,
                 priceRange, durationRange, co2Range, serverVars>>

\* response.json() resolves: the rest of handleSearch, its catch and its
\* finally
JsonSettles ==
  /\ awaiting = "json"
  /\ Finish(delivered)
  /\ UNCHANGED <<searchPerformed, sortBy, stopsFilter, searchData, delivered,
                 priceRange, durationRange, co2Range, serverVars>>

\* the body of the effect on [minPrice .. maxCo2, flightsWithCO2.length]
\* runs in a task of its own: with a non-empty set its three updates are
\* queued, and nothing is rendered yet
RunEffect ==
  /\ effect.pending /\ ~effect.run
  /\ effect' = IF effect.deps[2] > 0 THEN [effect EXCEPT !.run = TRUE] ELSE NoEffect
  /\ UNCHANGED <<flights, loading, error, searchPerformed, searchedCabinClass, pageTypicalEmissions,
                 sortBy, stopsFilter, searchData, delivered, awaiting,
                 priceRange, durationRange, co2Range, serverVars>>

\* the updates the body of the effect has queued are rendered
RenderEffect ==
  /\ effect.pending /\ effect.run
  /\ effect' = NoEffect
  /\ ResetRanges(effect.deps[1], effect.deps[2], effect.updates)
  /\ UNCHANGED <<flights, loading, error, searchPerformed, searchedCabinClass, pageTypicalEmissions,
                 sortBy, stopsFilter, searchData, delivered, awaiting, serverVars>>

\* the filters and the sort select are rendered with the results only
ControlsShown == View.results = "main-content-area"

SetSortBy(key) ==
  /\ ControlsShown
  /\ sortBy' = key
  /\ effect' = AfterEvent({})
  /\ UNCHANGED <<flights, loading, error, searchPerformed, searchedCabinClass, pageTypicalEmissions,
                 priceRange, durationRange, co2Range, stopsFilter, searchData, delivered,
                 awaiting, serverVars>>

StopsOptions == <<"any", "0", "1", "2">>

SetStopsFilter(value) ==
  /\ ControlsShown
  /\ stopsFilter' = value
  /\ effect' = AfterEvent({})
  /\ UNCHANGED <<flights, loading, error, searchPerformed, searchedCabinClass, pageTypicalEmissions,
                 sortBy, priceRange, durationRange, co2Range, searchData, delivered,
                 awaiting, serverVars>>

\* positions a slider between min and max is dragged to
SliderValues(min, max, marks) == {min, max} \cup {v \in marks : min <= v /\ v <= max}

PriceMarks == {}
FilterPriceMarks == {300}
DurationMarks == {300}
Co2Marks == {641, 642}

\* Math.min(Number(e.target.value), range[1] - step)
LowerTo(value, range, step) ==
  <<IF value < range[2] - step THEN value ELSE range[2] - step, range[2]>>

\* Math.max(Number(e.target.value), range[0] + step)
RaiseTo(value, range, step) ==
  <<range[1], IF value > range[1] + step THEN value ELSE range[1] + step>>

sliderFrame == <<flights, loading, error, searchPerformed, searchedCabinClass, pageTypicalEmissions,
                 sortBy, stopsFilter, searchData, delivered, awaiting, serverVars>>

\* the position a range input between min and max shows for value
Shown(value, min, max) == IF value < min THEN min ELSE IF value > max THEN max ELSE value

\* a range input emits its change event only when its value changes, so a
\* slider handler runs with a value other than the one the slider shows
SetPriceLow(value) ==
  /\ ControlsShown
  /\ value # Shown(priceRange[1], bounds.minPrice, bounds.maxPrice)
  /\ effect' = AfterEvent({"price"})
  /\ priceRange' = LowerTo(value, priceRange, 1)
  /\ UNCHANGED <<durationRange, co2Range, sliderFrame>>

SetPriceHigh(value) ==
  /\ ControlsShown
  /\ value # Shown(priceRange[2], bounds.minPrice, bounds.maxPrice)
  /\ effect' = AfterEvent({"price"})
  /\ priceRange' = RaiseTo(value, priceRange, 1)
  /\ UNCHANGED <<durationRange, co2Range, sliderFrame>>

SetDurationLow(value) ==
  /\ ControlsShown
  /\ value # Shown(durationRange[1], bounds.minDuration, bounds.maxDuration)
  /\ effect' = AfterEvent({"duration"})
  /\ durationRange' = LowerTo(value, durationRange, 1)
  /\ UNCHANGED <<priceRange, co2Range, sliderFrame>>

SetDurationHigh(value) ==
  /\ ControlsShown
  /\ value # Shown(durationRange[2], bounds.minDuration, bounds.maxDuration)
  /\ effect' = AfterEvent({"duration"})
  /\ durationRange' = RaiseTo(value, durationRange, 1)
  /\ UNCHANGED <<priceRange, co2Range, sliderFrame>>

\* Math.min(Number(e.target.value), co2Range[1] - 0.1), on doubles
LowerCo2To(value, range) ==
  LET number == NumberOfTenths(value)
      limit == MinusTenth(range[2])
  IN  <<IF Below(number, limit) THEN number ELSE limit, range[2]>>

\* Math.max(Number(e.target.value), co2Range[0] + 0.1), on doubles
RaiseCo2To(value, range) ==
  LET number == NumberOfTenths(value)
      limit == PlusTenth(range[1])
  IN  <<range[1], IF Below(limit, number) THEN number ELSE limit>>

\* the CO2 sliders step by 0.1; value is the position in tenths, and a
\* slider shows the position nearest to the end of the range it is given
SetCo2Low(value) ==
  /\ ControlsShown
  /\ value # Shown(co2Range[1].tenths, bounds.minCo2, bounds.maxCo2)
  /\ effect' = AfterEvent({"co2"})
  /\ co2Range' = LowerCo2To(value, co2Range)
  /\ UNCHANGED <<priceRange, durationRange, sliderFrame>>

SetCo2High(value) ==
  /\ ControlsShown
  /\ value # Shown(co2Range[2].tenths, bounds.minCo2, bounds.maxCo2)
  /\ effect' = AfterEvent({"co2"})
  /\ co2Range' = RaiseCo2To(value, co2Range)
  /\ UNCHANGED <<priceRange, durationRange, sliderFrame>>

(***************************************************************************)
(* Specifications.                                                         *)
(***************************************************************************)
\* number of flights in the emissions request of group g of request r
FlightCount(r, g) == Len(calls[r][EmissionsCallIndex(r, g)].flights)

\* a group's emissions request settles, with one of the light outcomes
EmissionsSettles(r) ==
  \E g \in pending[r] : \E o \in EmissionsOutcomes(FlightCount(r, g)) : EmissionsSettle(r, g, o)

\* a group's emissions request settles, with any of the outcomes
EmissionsSearchSettles(r) ==
  \E g \in pending[r] : \E o \in EmissionsSearchOutcomes(FlightCount(r, g)) : EmissionsSettle(r, g, o)

\* admission and cache: several POST /date requests over time
Next ==
  \/ \E r \in Requests, b \in Bodies : PostDate(r, b)
  \/ \E r \in Requests, o \in TypicalOutcomes : TypicalSettle(r, o)
  \/ \E r \in Requests, o \in AmadeusOutcomes : AmadeusSettle(r, o)
  \/ \E r \in Requests, o \in DuffelCreateOutcomes : DuffelCreateSettle(r, o)
  \/ \E r \in Requests, o \in DuffelListOutcomes : DuffelListSettle(r, o)
  \/ \E r \in Requests : EmissionsSettles(r)
  \/ Tick

Spec == Init /\ [][Next]_vars

\* every outbound call of a request eventually settles
CallsSettle ==
  \A r \in Requests :
    /\ WF_vars(\E o \in TypicalOutcomes : TypicalSettle(r, o))
    /\ WF_vars(\E o \in AmadeusOutcomes : AmadeusSettle(r, o))
    /\ WF_vars(\E o \in DuffelCreateOutcomes : DuffelCreateSettle(r, o))
    /\ WF_vars(\E o \in DuffelListOutcomes : DuffelListSettle(r, o))
    /\ WF_vars(EmissionsSettles(r))

\* the searches with the clock standing still: an entry that has gone stale is
\* deleted and the search runs as on a miss, so the release of the flag does
\* not depend on the age of the cache
NextLive ==
  \/ \E r \in Requests, b \in Bodies : PostDate(r, b)
  \/ \E r \in Requests, o \in TypicalOutcomes : TypicalSettle(r, o)
  \/ \E r \in Requests, o \in AmadeusOutcomes : AmadeusSettle(r, o)
  \/ \E r \in Requests, o \in DuffelCreateOutcomes : DuffelCreateSettle(r, o)
  \/ \E r \in Requests, o \in DuffelListOutcomes : DuffelListSettle(r, o)
  \/ \E r \in Requests : EmissionsSettles(r)

SpecLive == Init /\ [][NextLive]_vars /\ CallsSettle

\* repeated searches with several itineraries in the Amadeus response, the
\* clock standing still: a request that follows a successful search with
\* the same parameters is answered from the cache
NextRepeat ==
  \/ \E r \in Requests, b \in Bodies : PostDate(r, b)
  \/ \E r \in Requests, o \in TypicalOutcomes : TypicalSettle(r, o)
  \/ \E r \in Requests, o \in AmadeusSearchOutcomes : AmadeusSettle(r, o)
  \/ \E r \in Requests, o \in DuffelCreateOutcomes : DuffelCreateSettle(r, o)
  \/ \E r \in Requests, o \in DuffelListOutcomes : DuffelListSettle(r, o)
  \/ \E r \in Requests : EmissionsSettles(r)

SpecRepeat == Init /\ [][NextRepeat]_vars

\* one search with the full range of provider data, and airport searches
NextSearch ==
  \/ \E b \in SearchBodies : requestCounter = 0 /\ PostDate(1, b)
  \/ \E r \in Requests, o \in TypicalSearchOutcomes : TypicalSettle(r, o)
  \/ \E r \in Requests, o \in AmadeusSearchOutcomes : AmadeusSettle(r, o)
  \/ \E r \in Requests, o \in DuffelCreateOutcomes : DuffelCreateSettle(r, o)
  \/ \E r \in Requests, o \in DuffelListSearchOutcomes : DuffelListSettle(r, o)
  \/ \E r \in Requests : EmissionsSearchSettles(r)
  \/ \E a \in AirRequests, k \in AirKeywords : AirportSearch(a, k)
  \/ \E a \in AirRequests, o \in AirportAmadeusOutcomes : AirportAmadeusSettle(a, o)
  \/ \E a \in AirRequests, o \in AirportDuffelOutcomes : AirportDuffelSettle(a, o)

SpecSearch == Init /\ [][NextSearch]_vars

\* one search whose provider responses hold offers that differ in single
\* fields of their segments
NextKeys ==
  \/ requestCounter = 0 /\ PostDate(1, BodyA)
  \/ \E r \in Requests, o \in TypicalOutcomes : TypicalSettle(r, o)
  \/ \E r \in Requests, o \in AmadeusKeyOutcomes : AmadeusSettle(r, o)
  \/ \E r \in Requests, o \in DuffelCreateOutcomes : DuffelCreateSettle(r, o)
  \/ \E r \in Requests, o \in DuffelListKeyOutcomes : DuffelListSettle(r, o)
  \/ \E r \in Requests : EmissionsSettles(r)

SpecKeys == Init /\ [][NextKeys]_vars

\* the results page: searches for any cabin class, every response the fetch
\* can settle with, the sort select and the stops select
NextPage ==
  \/ \E search \in PageSearches : HandleSearch(search)
  \/ \E resp \in PageResponses : FetchSettles(resp)
  \/ JsonSettles
  \/ RunEffect
  \/ RenderEffect
  \/ \E key \in Range(SortKeys) : SetSortBy(key)
  \/ \E value \in Range(StopsOptions) : SetStopsFilter(value)

SpecPage == Init /\ [][NextPage]_vars

\* the results page under its filter controls: the stops select and a
\* slider of each range, over an economy search that succeeds
NextFilters ==
  \/ HandleSearch(BodyA)
  \/ FetchSettles(SearchResponse(PageOffers, TypicalGrams))
  \/ JsonSettles
  \/ RunEffect
  \/ RenderEffect
  \/ \E value \in Range(StopsOptions) : SetStopsFilter(value)
  \/ \E v \in SliderValues(bounds.minPrice, bounds.maxPrice, FilterPriceMarks) : SetPriceHigh(v)
  \/ \E v \in SliderValues(bounds.minDuration, bounds.maxDuration, DurationMarks) : SetDurationHigh(v)
  \/ \E v \in SliderValues(bounds.minCo2, bounds.maxCo2, Co2Marks) : SetCo2Low(v)

SpecFilters == Init /\ [][NextFilters]_vars

\* the searches and responses the reset specification draws from
ResetSearches == {[BodyA EXCEPT !.cabinClass = c] : c \in {"ECONOMY", "BUSINESS"}}
ResetResponses ==
  {SearchResponse(PageOffers, TypicalGrams), SearchResponse(PageOffersNoCO2, TypicalGrams),
   SearchResponse(PageOffersSingle, TypicalGrams), SearchResponse(<<>>, Null)}

\* the results page and the reset of its ranges: searches that deliver
\* filterable sets of several sizes, and the sliders of the price and of the
\* duration
NextReset ==
  \/ \E search \in ResetSearches : HandleSearch(search)
  \/ \E resp \in ResetResponses : FetchSettles(resp)
  \/ JsonSettles
  \/ RunEffect
  \/ RenderEffect
  \/ \E v \in SliderValues(bounds.minPrice, bounds.maxPrice, PriceMarks) : SetPriceLow(v)
  \/ \E v \in SliderValues(bounds.minPrice, bounds.maxPrice, PriceMarks) : SetPriceHigh(v)
  \/ \E v \in SliderValues(bounds.minDuration, bounds.maxDuration, DurationMarks) : SetDurationLow(v)

SpecReset == Init /\ [][NextReset]_vars

\* the results page under its price and CO2 sliders, over a search whose
\* offers lie a tenth of a kilogram apart
NextClose ==
  \/ HandleSearch(BodyA)
  \/ FetchSettles(SearchResponse(PageOffersClose, TypicalGrams))
  \/ JsonSettles
  \/ RunEffect
  \/ RenderEffect
  \/ \E v \in SliderValues(bounds.minPrice, bounds.maxPrice, PriceMarks) : SetPriceLow(v)
  \/ \E v \in SliderValues(bounds.minPrice, bounds.maxPrice, PriceMarks) : SetPriceHigh(v)
  \/ \E v \in SliderValues(bounds.minCo2, bounds.maxCo2, Co2Marks) : SetCo2Low(v)
  \/ \E v \in SliderValues(bounds.minCo2, bounds.maxCo2, Co2Marks) : SetCo2High(v)

SpecClose == Init /\ [][NextClose]_vars

(***************************************************************************)
(* Vocabulary of the properties.                                           *)
(***************************************************************************)
\* the request is past admission and has not finished
Active(r) == pc[r] \notin {"new", "done"}

\* the request arrives in this step
Arrives(r) == pc[r] = "new" /\ pc'[r] # "new"

RejectionResponse == Json(200, [error |-> InProgressMessage])

Apis(cs) == {cs[i].api : i \in 1..Len(cs)}

FlightSearchApis == {"amadeusFlightOffersSearch", "duffelOfferRequestsCreate", "duffelOffersList"}
DuffelApis == {"duffelOfferRequestsCreate", "duffelOffersList"}

\* some call of the request to one of the apis has been issued and not settled
InFlight(r, apis) ==
  \E i \in 1..Len(calls[r]) : calls[r][i].api \in apis /\ i \notin DOMAIN settled[r]

\* some call of the request to one of the apis has settled as a failure
HasFailed(r, apis) ==
  \E i \in DOMAIN settled[r] : calls[r][i].api \in apis /\ ~settled[r][i].ok

(***************************************************************************)
(* C1: at most one POST /date request is past admission at any time: a     *)
(* request arriving while an admitted search has not finished gets the     *)
(* 'Flight search already in progress' response, and flight-provider       *)
(* search calls of two different requests are never in flight together.    *)
(***************************************************************************)
C1_SingleAdmission ==
  [][ /\ \A r \in Requests :
           (Arrives(r) /\ \E q \in Requests : Active(q))
             => (response'[r] = RejectionResponse /\ pc'[r] = "done")
      /\ Cardinality({r \in Requests : Active(r)'}) <= 1
      /\ \A r, q \in Requests :
           (r # q) => ~(InFlight(r, FlightSearchApis)' /\ InFlight(q, FlightSearchApis)') ]_vars

\* a request was rejected while another one's provider search is in flight,
\* after an earlier search had finished
C1_Witness ==
  \E r, q, p \in Requests :
    /\ p < q /\ q < r
    /\ pc[p] = "done" /\ calls[p] # <<>>
    /\ InFlight(q, FlightSearchApis)
    /\ response[r] = RejectionResponse

(***************************************************************************)
(* C2: every admitted POST /date request clears the admission flag in the  *)
(* step in which it finishes, whichever way it finishes, so a request      *)
(* arriving when no admitted request is unfinished is admitted; and, when  *)
(* every outbound call eventually settles, the flag is eventually cleared  *)
(* after every admission.                                                  *)
(***************************************************************************)
C2_MutexReleased ==
  /\ [][ /\ \A r \in Requests :
              (pc[r] # "done" /\ pc'[r] = "done" /\ response'[r] # RejectionResponse)
                => ~flightSearchInProgress'
         /\ \A r \in Requests :
              (Arrives(r) /\ ~\E q \in Requests : Active(q))
                => response'[r] # RejectionResponse ]_vars
  /\ \A r \in Requests : Active(r) ~> ~flightSearchInProgress

\* a search ended in HTTP 500, another in a successful search, and a later
\* request has been admitted
C2_Witness ==
  \E p, q, r \in Requests :
    /\ pc[p] = "done" /\ response[p].status = 500
    /\ pc[q] = "done" /\ response[q].status = 200 /\ calls[q] # <<>>
    /\ p < r /\ q < r /\ Active(r)

(***************************************************************************)
(* C3: a request admitted while the cache holds an entry for its six       *)
(* parameters that is less than CACHE_DURATION (30 s) old returns the      *)
(* stored response, which is the response an earlier request with those    *)
(* parameters received, and never makes an outbound call; admitted 30 s or *)
(* more after the entry was written, the entry is deleted and the search   *)
(* runs again, starting with its first outbound call.                      *)
(***************************************************************************)
C3_CacheWindow ==
  [][ /\ \A r \in Requests :
           (Arrives(r) /\ ~\E q \in Requests : Active(q))
             => LET key == cacheKey(body'[r])
                IN  key \in DOMAIN requestCache
                      => IF now - requestCache[key].timestamp < 30000
                         THEN /\ response'[r] = Json(200, requestCache[key].data)
                              /\ \E q \in Requests :
                                   /\ q < r /\ body[q] = body'[r] /\ calls[q] # <<>>
                                   /\ response[q] = response'[r]
                              /\ calls'[r] = <<>> /\ pc'[r] = "done"
                              /\ requestCache' = requestCache
                         ELSE /\ key \notin DOMAIN requestCache'
                              /\ calls'[r] # <<>> /\ pc'[r] # "done"
      /\ \A r \in Requests : pc[r] = "done" => calls'[r] = calls[r] ]_vars

\* the second request was answered from the cache and the third, with the
\* same parameters, searched again after the entry had expired
C3_Witness ==
  /\ MaxReq >= 3
  /\ body[1] = body[2] /\ body[2] = body[3]
  /\ response[1].status = 200 /\ calls[1] # <<>>
  /\ response[2] = response[1] /\ calls[2] = <<>>
  /\ pc[3] = "done" /\ calls[3] # <<>> /\ response[3].status = 200

(***************************************************************************)
(* C4: a request arriving while a search is in progress is answered at     *)
(* once with HTTP 200 and {error: 'Flight search already in progress'},    *)
(* whatever its parameters and the cache's content; it makes no outbound   *)
(* call, leaves the cache and the admission flag as they are, and is not   *)
(* processed later.                                                        *)
(***************************************************************************)
C4_RejectionIsInert ==
  [][ /\ \A r \in Requests :
           (Arrives(r) /\ \E q \in Requests : Active(q))
             => /\ response'[r] = Json(200, [error |-> "Flight search already in progress"])
                /\ pc'[r] = "done"
                /\ calls'[r] = <<>>
                /\ requestCache' = requestCache
                /\ flightSearchInProgress /\ flightSearchInProgress'
                /\ \A q \in Requests \ {r} : pc'[q] = pc[q] /\ calls'[q] = calls[q]
      /\ \A r \in Requests :
           (pc[r] = "done" /\ response[r] = RejectionResponse)
             => (pc'[r] = "done" /\ response'[r] = response[r] /\ calls'[r] = <<>>) ]_vars

\* a request was rejected although the cache holds a fresh entry for its
\* parameters, while a search with other parameters is in progress
C4_Witness ==
  \E r, q \in Requests :
    /\ response[r] = RejectionResponse
    /\ cacheKey(body[r]) \in DOMAIN requestCache
    /\ now - requestCache[cacheKey(body[r])].timestamp < CACHE_DURATION
    /\ Active(q) /\ body[q] # body[r]

(***************************************************************************)
(* C5: in POST /date and in GET /airport-search the Amadeus call is issued *)
(* before any Duffel call, a Duffel call is issued only after the Amadeus  *)
(* call of the same request has settled as a failure, and no call is       *)
(* issued twice within one request (nothing is retried).                   *)
(***************************************************************************)
FallbackOrder(cs, done, primary, secondary) ==
  /\ \A i, j \in 1..Len(cs) : (i # j) => cs[i] # cs[j]
  /\ \A j \in 1..Len(cs) :
       cs[j].api \in secondary
         => \E i \in 1..(j - 1) : cs[i].api = primary /\ i \in DOMAIN done /\ ~done[i].ok
  /\ \A j \in 1..Len(cs) :
       (cs[j].api = primary /\ j \in DOMAIN done /\ done[j].ok)
         => \A i \in 1..Len(cs) : cs[i].api \notin secondary

C5_FallbackOrder ==
  /\ \A r \in Requests :
       /\ FallbackOrder(calls[r], settled[r], "amadeusFlightOffersSearch", DuffelApis)
       /\ pc[r] \in {"amadeus", "duffelCreate", "duffelList", "emissions"}
            => "amadeusFlightOffersSearch" \in Apis(calls[r])
  /\ \A a \in AirRequests :
       /\ FallbackOrder(airCalls[a], airSettled[a], "amadeusLocations", {"duffelSuggestions"})
       /\ (airPc[a] # "new" /\ ~KeywordTooShort(airKeyword[a]))
            => airCalls[a][1].api = "amadeusLocations"

\* a flight search went through both Duffel calls after Amadeus had failed,
\* and an airport search fell back to Duffel
C5_Witness ==
  /\ \E r \in Requests :
       /\ HasFailed(r, {"amadeusFlightOffersSearch"})
       /\ "duffelOffersList" \in Apis(calls[r])
       /\ pc[r] = "done" /\ response[r].status = 200
  /\ \E a \in AirRequests :
       /\ "duffelSuggestions" \in Apis(airCalls[a])
       /\ airPc[a] = "done"

(***************************************************************************)
(* C6: when the Amadeus search and the Duffel search of an admitted        *)
(* request have both failed, the response is HTTP 500 with an error body   *)
(* and never a success response with offers: [].                           *)
(***************************************************************************)
C6_BothFailedIs500 ==
  \A r \in Requests :
    (HasFailed(r, {"amadeusFlightOffersSearch"}) /\ HasFailed(r, DuffelApis))
      => /\ pc[r] = "done"
         /\ response[r].status = 500
         /\ DOMAIN response[r].body = {"error"}
         /\ response[r].body.error = "Failed to fetch flight offers from both APIs."

\* Amadeus failed and then duffel.offers.list failed
C6_Witness ==
  \E r \in Requests :
    /\ HasFailed(r, {"amadeusFlightOffersSearch"})
    /\ HasFailed(r, {"duffelOffersList"})
    /\ response[r].status = 500

(***************************************************************************)
(* C7: when the emissions request of one itinerary group fails the search  *)
(* still succeeds; every offer of that group is in the response with       *)
(* emissionsGramsPerPax null, availableCabinClasses empty and              *)
(* emissionsCompleteness false, and every offer of another group carries   *)
(* the values computed from its own group's response.                      *)
(***************************************************************************)
EmissionFields == {"emissionsGramsPerPax", "availableCabinClasses", "emissionsCompleteness"}

C7_GroupFailureIsLocal ==
  \A r \in Requests :
    (pc[r] = "done" /\ "flightEmissions" \in Apis(calls[r]))
      => /\ response[r].status = 200
         /\ Len(response[r].body.offers) = Len(allFlightOffers[r])
         /\ \A g \in 1..Len(groupedOffers[r]) :
              \A m \in 1..Len(groupedOffers[r][g].members) :
                LET outcome == settled[r][EmissionsCallIndex(r, g)]
                    offer == response[r].body.offers[groupedOffers[r][g].members[m]]
                IN  /\ flightKeyAmadeus(offer) = groupedOffers[r][g].key
                    /\ ~outcome.ok =>
                         /\ offer.emissionsGramsPerPax = Null
                         /\ offer.availableCabinClasses = <<>>
                         /\ offer.emissionsCompleteness = FALSE
                    /\ outcome.ok =>
                         \A f \in EmissionFields : offer[f] = AggregateEmissions(outcome)[f]
         /\ ~usingDuffel[r] =>
              \A i \in 1..Len(settled[r][2].data) :
                response[r].body.offers[i].id = settled[r][2].data[i].id

\* a finished Amadeus search whose two-offer group failed while the other
\* group received values
C7_Witness ==
  \E r \in Requests :
    /\ pc[r] = "done" /\ ~usingDuffel[r] /\ Len(groupedOffers[r]) = 2
    /\ \E g, h \in 1..2 :
         /\ Len(groupedOffers[r][g].members) = 2
         /\ ~settled[r][EmissionsCallIndex(r, g)].ok
         /\ settled[r][EmissionsCallIndex(r, h)].ok
         /\ settled[r][EmissionsCallIndex(r, h)].data.flightEmissions # <<>>
         /\ response[r].body.offers[groupedOffers[r][h].members[1]].emissionsCompleteness

(***************************************************************************)
(* C8: on a cache miss the typical-emissions request is issued exactly     *)
(* once per search; when it fails the search goes on: the Amadeus search   *)
(* is issued, and a successful response carries typicalEmissions null      *)
(* together with the offers.                                               *)
(***************************************************************************)
C8_TypicalBestEffort ==
  \A r \in Requests :
    /\ calls[r] # <<>> =>
         Cardinality({i \in 1..Len(calls[r]) : calls[r][i].api = "typicalEmissions"}) = 1
    /\ (1 \in DOMAIN settled[r] /\ ~settled[r][1].ok) =>
         /\ Len(calls[r]) >= 2 /\ calls[r][2].api = "amadeusFlightOffersSearch"
         /\ (pc[r] = "done" /\ response[r].status = 500)
              => ~(2 \in DOMAIN settled[r] /\ settled[r][2].ok
                     /\ \A i \in 1..Len(settled[r][2].data) :
                          "itineraries" \in DOMAIN settled[r][2].data[i])
         /\ (pc[r] = "done" /\ response[r].status = 200)
              => /\ response[r].body.typicalEmissions = Null
                 /\ Len(response[r].body.offers) = Len(allFlightOffers[r])

\* the typical-emissions call failed and the search returned offers
C8_Witness ==
  \E r \in Requests :
    /\ 1 \in DOMAIN settled[r] /\ ~settled[r][1].ok
    /\ pc[r] = "done" /\ response[r].status = 200
    /\ Len(response[r].body.offers) > 0

(***************************************************************************)
(* C9 as stated: on the Duffel path every offer the provider returned is   *)
(* present in the response.                                                *)
(***************************************************************************)
\* the offers duffel.offers.list returned to request r
DuffelReturned(r) ==
  LET i == CHOOSE i \in DOMAIN settled[r] : calls[r][i].api = "duffelOffersList"
  IN  settled[r][i].data

DuffelSucceeded(r) ==
  /\ pc[r] = "done" /\ response[r].status = 200
  /\ \E i \in DOMAIN settled[r] : calls[r][i].api = "duffelOffersList" /\ settled[r][i].ok

C9_AllDuffelOffersReturned ==
  \A r \in Requests :
    DuffelSucceeded(r)
      => \A i \in 1..Len(DuffelReturned(r)) :
           \E j \in 1..Len(response[r].body.offers) :
             response[r].body.offers[j].id = DuffelReturned(r)[i].id

(***************************************************************************)
(* C9 as amended: on the Duffel path the response holds, in the provider's *)
(* order, exactly the first offer of each itinerary identity; an offer     *)
(* that shares its identity with an earlier offer is dropped before the    *)
(* emissions computation and is not restored.                              *)
(***************************************************************************)
C9_FirstOfEachItinerary ==
  \A r \in Requests :
    DuffelSucceeded(r)
      => LET returned == DuffelReturned(r)
             firstSeen(i) == \A j \in 1..(i - 1) :
                                flightKeyDuffel(returned[j]) # flightKeyDuffel(returned[i])
             kept == SelectSeq([i \in 1..Len(returned) |-> i], firstSeen)
             out == response[r].body.offers
         IN  /\ Len(out) = Len(kept)
             /\ \A n \in 1..Len(kept) :
                  /\ out[n].id = returned[kept[n]].id
                  /\ out[n].price.total = returned[kept[n]].total_amount

\* Duffel returned two fares of one itinerary and the search succeeded
C9_Witness ==
  \E r \in Requests :
    /\ DuffelSucceeded(r)
    /\ \E i, j \in 1..Len(DuffelReturned(r)) :
         i < j /\ flightKeyDuffel(DuffelReturned(r)[i]) = flightKeyDuffel(DuffelReturned(r)[j])

(***************************************************************************)
(* C10: a POST /date request whose body lacks origin, destination or       *)
(* departure date is rejected before any call to a flight provider or to   *)
(* the emissions provider is made.                                         *)
(***************************************************************************)
C10_MalformedRejectedBeforeCalls ==
  \A r \in Requests :
    (pc[r] # "new" /\ MissingRequired(body[r]))
      => (calls[r] = <<>> /\ (pc[r] = "done" => response[r].status # 200))

(***************************************************************************)
(* C11: after a successful search for a cabin class, flightsWithCO2 is     *)
(* exactly the list of returned offers whose emissionsCompleteness is true *)
(* and whose emissionsGramsPerPax holds a positive value for that class,   *)
(* for each of ECONOMY, PREMIUM_ECONOMY, BUSINESS and FIRST.               *)
(***************************************************************************)
\* the offer's emissionsGramsPerPax holds a positive value for the class
HasValueFor(f, class) ==
  /\ ~IsNull(f.emissionsGramsPerPax)
  /\ classKeyCamelCase(class) \in DOMAIN f.emissionsGramsPerPax
  /\ f.emissionsGramsPerPax[classKeyCamelCase(class)] > 0

\* the last search of the page succeeded and is shown
SearchShown == ~loading /\ searchPerformed /\ error = "" /\ "offers" \in DOMAIN delivered.body

C11_FilterableSet ==
  SearchShown =>
    /\ searchedCabinClass = searchData.cabinClass
    /\ LET expected(f) == f.emissionsCompleteness /\ HasValueFor(f, searchedCabinClass)
       IN  flightsWithCO2 = SelectSeq(flights, expected)

(***************************************************************************)
(* C12: when the fetch settles with the admission-rejected response (HTTP  *)
(* 200, {error: 'Flight search already in progress'}) the page's error     *)
(* state stays empty, no error banner is rendered, and loading ends, once  *)
(* handleSearch has read the body and run to its end.                      *)
(***************************************************************************)
C12_RejectionNotFatal ==
  (delivered = Json(200, [error |-> "Flight search already in progress"]) /\ awaiting = "none")
    => /\ error = ""
       /\ View.banner = ""
       /\ ~loading /\ ~View.spinner

\* the page has received the rejection after an earlier search had shown
\* results
C12_Witness ==
  /\ delivered = RejectionResponse /\ awaiting = "none"
  /\ Len(flights) = 0 /\ IsNull(pageTypicalEmissions)
  /\ searchPerformed /\ ~loading
  /\ sortBy # "co2_lowest"

(***************************************************************************)
(* C13: the page state reached after the 'already in progress' response    *)
(* differs from the state reached after a successful search of the same    *)
(* parameters that found zero offers.                                      *)
(***************************************************************************)
\* the part of the state handleSearch writes
SearchState == <<flights, pageTypicalEmissions, searchedCabinClass, error, loading, searchPerformed>>

C13_RejectionDistinctFromEmpty ==
  (delivered = RejectionResponse /\ awaiting = "none")
    => \A empty \in ZeroOfferResponses :
         LET after == AfterResponse(empty, searchData, searchedCabinClass, pageTypicalEmissions)
         IN  SearchState # <<after.flights, after.pageTypicalEmissions, after.searchedCabinClass,
                             after.error, after.loading, TRUE>>

(***************************************************************************)
(* C14 as stated: any two offers of one provider response whose ordered    *)
(* segment sequences agree on carrier code, flight number and departure    *)
(* timestamp across all itineraries get the same itinerary-identity key    *)
(* and are both put in the same emissions group, whatever their price.     *)
(***************************************************************************)
\* carrier, number and departure timestamp of every segment, per itinerary
ItineraryIdentity(offer, duffel) ==
  IF duffel
  THEN LET seg(s) == <<s.marketing_carrier.iata_code, s.marketing_carrier_flight_number, s.departing_at>>
           slice(sl) == Map(sl.segments, seg)
       IN  Map(offer.slices, slice)
  ELSE LET seg(s) == <<s.carrierCode, s.number, s.departure.at>>
           itin(it) == Map(it.segments, seg)
       IN  Map(offer.itineraries, itin)

\* the request has grouped the offers of a provider response
Grouped(r) == Len(groupedOffers[r]) > 0

\* the offers the flight provider returned to request r
ProviderResponse(r) == IF usingDuffel[r] THEN DuffelReturned(r) ELSE settled[r][2].data

\* group g of request r holds the offer with this id
InGroup(r, g, id) ==
  \E m \in 1..Len(groupedOffers[r][g].members) :
    allFlightOffers[r][groupedOffers[r][g].members[m]].id = id

C14_SameIdentitySameGroup ==
  \A r \in Requests :
    Grouped(r) =>
      LET offers == ProviderResponse(r)
          duffel == usingDuffel[r]
      IN  \A i, j \in 1..Len(offers) :
            ItineraryIdentity(offers[i], duffel) = ItineraryIdentity(offers[j], duffel)
              => /\ flightKey(offers[i], duffel) = flightKey(offers[j], duffel)
                 /\ \E g \in 1..Len(groupedOffers[r]) :
                      InGroup(r, g, offers[i].id) /\ InGroup(r, g, offers[j].id)

(***************************************************************************)
(* C14 as amended: two such offers always get the same key; on the Amadeus *)
(* path both are in the one group of that key, whatever their price; on    *)
(* the Duffel path the later one has been dropped before grouping, so the  *)
(* group of that key holds the first offer of the identity alone.          *)
(***************************************************************************)
C14_SameIdentitySameKey ==
  \A r \in Requests :
    Grouped(r) =>
      LET offers == ProviderResponse(r)
          duffel == usingDuffel[r]
      IN  \A i, j \in 1..Len(offers) :
            (i < j /\ ItineraryIdentity(offers[i], duffel) = ItineraryIdentity(offers[j], duffel))
              => /\ flightKey(offers[i], duffel) = flightKey(offers[j], duffel)
                 /\ \E g \in 1..Len(groupedOffers[r]) :
                      /\ groupedOffers[r][g].key = flightKey(offers[j], duffel)
                      /\ \A h \in 1..Len(groupedOffers[r]) :
                           (h # g) => ~InGroup(r, h, offers[i].id) /\ ~InGroup(r, h, offers[j].id)
                      /\ IF duffel
                         THEN /\ ~InGroup(r, g, offers[j].id)
                              /\ Len(groupedOffers[r][g].members) = 1
                         ELSE InGroup(r, g, offers[i].id) /\ InGroup(r, g, offers[j].id)

\* an Amadeus search grouped two offers of different price, with an offer of
\* another itinerary between them in the response
C14_Witness ==
  \E r \in Requests :
    /\ Grouped(r) /\ ~usingDuffel[r]
    /\ \E g \in 1..Len(groupedOffers[r]) :
         LET members == groupedOffers[r][g].members
         IN  /\ Len(members) = 2
             /\ members[2] > members[1] + 1
             /\ allFlightOffers[r][members[1]].price.total # allFlightOffers[r][members[2]].price.total

(***************************************************************************)
(* C15: an offer of the sorted list is in the filtered list exactly when   *)
(* its price lies within priceRange, its total duration within             *)
(* durationRange and its CO2 within co2Range, both bounds included, and    *)
(* the stops filter passes ('any'; '0'; '1'; '2' meaning two or more),     *)
(* stops being the segment count of the first itinerary minus one; the     *)
(* filtered list keeps the sorted order.  An offer of total duration 400   *)
(* minutes is not in the filtered list under the duration range [60, 300]. *)
(***************************************************************************)
C15_FilterIsConjunction ==
  LET class == searchedCabinClass
      stops(f) == Len(f.itineraries[1].segments) - 1
      passes(f) ==
        /\ priceRange[1] <= getPriceForClass(f, class) /\ getPriceForClass(f, class) <= priceRange[2]
        /\ durationRange[1] <= getFlightDuration(f) /\ getFlightDuration(f) <= durationRange[2]
        /\ AtMost(co2Range[1], NumberOfTenths(Co2OrZero(f, class)))
        /\ AtMost(NumberOfTenths(Co2OrZero(f, class)), co2Range[2])
        /\ \/ stopsFilter = "any"
           \/ stopsFilter = "0" /\ stops(f) = 0
           \/ stopsFilter = "1" /\ stops(f) = 1
           \/ stopsFilter = "2" /\ stops(f) >= 2
      sorted == sortedFlights
      filtered == filteredFlights
  IN  /\ filtered = SelectSeq(sorted, passes)
      /\ \A i \in 1..Len(sorted) :
           (\E j \in 1..Len(filtered) : filtered[j] = sorted[i]) <=> passes(sorted[i])
      /\ durationRange = <<60, 300>>
           => \A j \in 1..Len(filtered) : getFlightDuration(filtered[j]) # 400

\* under the duration range [60, 300] and the filter for two or more stops,
\* a 400-minute offer is among the sorted offers and one offer passes
C15_Witness ==
  /\ ControlsShown /\ ~effect.pending
  /\ durationRange = <<60, 300>> /\ stopsFilter = "2"
  /\ \E i \in 1..Len(sortedFlights) : getFlightDuration(sortedFlights[i]) = 400
  /\ Len(sortedFlights) >= 3 /\ Len(filteredFlights) = 1
  /\ priceRange[2] < bounds.maxPrice

(***************************************************************************)
(* C16: when the offers of the CO2-filterable set have pairwise distinct   *)
(* CO2 values for the searched cabin class (the values                     *)
(* getCO2EmissionForClass returns, kilograms to one decimal), the list     *)
(* sorted by co2_lowest is in strictly rising CO2 order and is exactly the *)
(* reverse of the list sorted by co2_highest.                              *)
(***************************************************************************)
Reverse(s) == [i \in 1..Len(s) |-> s[Len(s) + 1 - i]]

DistinctCo2(fl, class) ==
  \A i, j \in 1..Len(fl) :
    (i # j) => getCO2EmissionForClass(fl[i], class) # getCO2EmissionForClass(fl[j], class)

C16_Co2OrdersReversed ==
  LET class == searchedCabinClass
      lowest == SortFlights(flightsWithCO2, class, "co2_lowest")
      highest == SortFlights(flightsWithCO2, class, "co2_highest")
  IN  /\ sortBy = "co2_lowest" => sortedFlights = lowest
      /\ sortBy = "co2_highest" => sortedFlights = highest
      /\ DistinctCo2(flightsWithCO2, class)
           => /\ lowest = Reverse(highest)
              /\ \A i, j \in 1..Len(lowest) :
                   (i < j) => getCO2EmissionForClass(lowest[i], class).tenths
                                < getCO2EmissionForClass(lowest[j], class).tenths

\* four offers of distinct CO2 are shown highest first, which is not the
\* order of the response
C16_Witness ==
  /\ ControlsShown /\ sortBy = "co2_highest"
  /\ Len(flightsWithCO2) >= 4
  /\ DistinctCo2(flightsWithCO2, searchedCabinClass)
  /\ sortedFlights # flightsWithCO2
  /\ sortedFlights # Reverse(flightsWithCO2)

(***************************************************************************)
(* C17: GET /airport-search with no keyword or with a keyword shorter than *)
(* 2 characters answers {data: []} at once and calls neither provider.     *)
(***************************************************************************)
C17_ShortKeywordShortCircuits ==
  \A a \in AirRequests :
    (airPc[a] # "new" /\ (airKeyword[a] = Undefined \/ Len(airKeyword[a]) < 2))
      => /\ airPc[a] = "done"
         /\ airResponse[a] = [status |-> 200, body |-> [data |-> <<>>]]
         /\ airCalls[a] = <<>>
         /\ DOMAIN airSettled[a] = {}

\* an airport search with a one-character keyword has been answered
C17_Witness ==
  \E a \in AirRequests :
    /\ airPc[a] = "done"
    /\ airKeyword[a] # Undefined /\ Len(airKeyword[a]) = 1
    /\ airResponse[a].status = 200

(***************************************************************************)
(* C18: a search that reaches enrichment issues exactly one emissions      *)
(* request per distinct itinerary-identity key among its offers, never one *)
(* per offer, each built from the first offer of that key in the           *)
(* provider's order; a request answered from the cache and a search that   *)
(* found zero offers issue no emissions request.                           *)
(***************************************************************************)
\* positions in calls[r] of the itinerary-emissions requests
EmissionsCalls(r) == {i \in 1..Len(calls[r]) : calls[r][i].api = "flightEmissions"}

C18_OneRequestPerItinerary ==
  /\ [](\A r \in Requests :
          /\ Grouped(r) =>
               LET offers == ProviderResponse(r)
                   duffel == usingDuffel[r]
                   keys == {flightKey(offers[i], duffel) : i \in 1..Len(offers)}
                   firstOf(k) == offers[CHOOSE i \in 1..Len(offers) :
                                   /\ flightKey(offers[i], duffel) = k
                                   /\ \A j \in 1..(i - 1) : flightKey(offers[j], duffel) # k]
               IN  /\ Cardinality(EmissionsCalls(r)) = Cardinality(keys)
                   /\ \A k \in keys :
                        \E i \in EmissionsCalls(r) :
                          /\ calls[r][i].representative = firstOf(k).id
                          /\ calls[r][i].flights = FlightsToCalculate(firstOf(k), duffel)
                          /\ \A j \in EmissionsCalls(r) :
                               calls[r][j].representative = firstOf(k).id => j = i
          /\ ~Grouped(r) => EmissionsCalls(r) = {}
          /\ (pc[r] = "done" /\ response[r].status = 200 /\ "offers" \in DOMAIN response[r].body
                /\ response[r].body.offers = <<>>) => EmissionsCalls(r) = {})
  /\ [][\A r \in Requests :
          (/\ Arrives(r) /\ ~flightSearchInProgress
           /\ cacheKey(body'[r]) \in DOMAIN requestCache
           /\ now - requestCache[cacheKey(body'[r])].timestamp < CACHE_DURATION)
            => (pc'[r] = "done" /\ calls'[r] = <<>> /\ ~Grouped(r)')]_vars

\* a search of three offers in two itineraries has issued two emissions
\* requests, and a later request was answered with its cached response
C18_Witness ==
  \E r, q \in Requests :
    /\ r < q /\ pc[r] = "done" /\ pc[q] = "done" /\ Grouped(r)
    /\ Len(ProviderResponse(r)) = 3 /\ Cardinality(EmissionsCalls(r)) = 2
    /\ calls[q] = <<>> /\ response[q] = response[r]

(***************************************************************************)
(* C19: the emissions requests of all groups of a search are issued        *)
(* together, before any of them has settled, and none is issued later; a   *)
(* group's offers carry the emissions fields only once the group's own     *)
(* request has settled, whatever the state of the other groups; the cache  *)
(* write and the HTTP response come only when every group's request has    *)
(* settled.                                                                *)
(***************************************************************************)
\* the emissions request of group g has settled
GroupSettled(r, g) == EmissionsCallIndex(r, g) \in DOMAIN settled[r]

C19_ConcurrentEnrichment ==
  /\ [](\A r \in Requests :
          Grouped(r) =>
            /\ Cardinality(EmissionsCalls(r)) = Len(groupedOffers[r])
            /\ \A g \in 1..Len(groupedOffers[r]) :
                 /\ calls[r][EmissionsCallIndex(r, g)].api = "flightEmissions"
                 /\ \A m \in 1..Len(groupedOffers[r][g].members) :
                      LET offer == allFlightOffers[r][groupedOffers[r][g].members[m]]
                      IN  GroupSettled(r, g) <=> EmissionFields \subseteq DOMAIN offer
            /\ (\E g \in 1..Len(groupedOffers[r]) : ~GroupSettled(r, g))
                 => /\ pc[r] = "emissions"
                    /\ response[r] = NoResponse
                    /\ cacheKey(body[r]) \notin DOMAIN requestCache
            /\ (\A g \in 1..Len(groupedOffers[r]) : GroupSettled(r, g))
                 => /\ pc[r] = "done"
                    /\ response[r].status = 200
                    /\ requestCache[cacheKey(body[r])].data = response[r].body)
  /\ [][\A r \in Requests :
          /\ Grouped(r) => calls'[r] = calls[r]
          /\ (~Grouped(r) /\ Grouped(r)') => \A i \in EmissionsCalls(r)' : i \notin DOMAIN settled'[r]]_vars

\* the second group's request has settled and its offer carries the fields
\* while the first group's request is still in flight
C19_Witness ==
  \E r \in Requests :
    /\ Len(groupedOffers[r]) = 2
    /\ ~GroupSettled(r, 1) /\ GroupSettled(r, 2)
    /\ EmissionFields \subseteq DOMAIN allFlightOffers[r][groupedOffers[r][2].members[1]]
    /\ pc[r] = "emissions"

(***************************************************************************)
(* C20: an offer in the response has emissionsCompleteness true only if    *)
(* the emissions response of its group held, for every segment of every    *)
(* itinerary of the group's representative offer, an entry with a usable   *)
(* (positive) emissions value; when one segment's entry has no value the   *)
(* whole group is incomplete and its per-cabin totals are the sums over    *)
(* the segments that have values.                                          *)
(***************************************************************************)
\* the entry of one segment holds a positive value for some cabin
HasUsableValue(entry) ==
  /\ "emissionsGramsPerPax" \in DOMAIN entry
  /\ \E k \in DOMAIN entry.emissionsGramsPerPax : entry.emissionsGramsPerPax[k] > 0

\* the sum of the positive values of one cabin over the entries
PartialTotal(entries, k) ==
  SumSeq([i \in 1..Len(entries) |->
            IF HasUsableValue(entries[i]) /\ entries[i].emissionsGramsPerPax[k] > 0
            THEN entries[i].emissionsGramsPerPax[k] ELSE 0])

C20_CompleteOnlyIfEverySegment ==
  \A r \in Requests :
    (pc[r] = "done" /\ Grouped(r)) =>
      \A g \in 1..Len(groupedOffers[r]) :
        \A m \in 1..Len(groupedOffers[r][g].members) :
          LET offer == response[r].body.offers[groupedOffers[r][g].members[m]]
              outcome == settled[r][EmissionsCallIndex(r, g)]
              segments == Len(calls[r][EmissionsCallIndex(r, g)].flights)
          IN  /\ offer.emissionsCompleteness
                   => /\ outcome.ok
                      /\ Len(outcome.data.flightEmissions) = segments
                      /\ \A i \in 1..segments : HasUsableValue(outcome.data.flightEmissions[i])
              /\ (outcome.ok /\ \E i \in 1..Len(outcome.data.flightEmissions) :
                                   ~HasUsableValue(outcome.data.flightEmissions[i]))
                   => /\ ~offer.emissionsCompleteness
                      /\ \A k \in Range(CabinKeys) :
                           LET total == PartialTotal(outcome.data.flightEmissions, k)
                           IN  IF total > 0
                               THEN /\ k \in DOMAIN offer.emissionsGramsPerPax
                                    /\ offer.emissionsGramsPerPax[k] = total
                               ELSE k \notin DOMAIN offer.emissionsGramsPerPax

\* a two-segment itinerary whose second segment came back without a value:
\* its offer is incomplete and carries the first segment's totals
C20_Witness ==
  \E r \in Requests :
    /\ pc[r] = "done" /\ Grouped(r)
    /\ \E g \in 1..Len(groupedOffers[r]) :
         LET offer == response[r].body.offers[groupedOffers[r][g].members[1]]
             outcome == settled[r][EmissionsCallIndex(r, g)]
         IN  /\ outcome.ok /\ Len(outcome.data.flightEmissions) = 2
             /\ HasUsableValue(outcome.data.flightEmissions[1])
             /\ ~HasUsableValue(outcome.data.flightEmissions[2])
             /\ ~offer.emissionsCompleteness
             /\ offer.emissionsGramsPerPax.economy = outcome.data.flightEmissions[1].emissionsGramsPerPax.economy

(***************************************************************************)
(* C21: for every offer in a response whose emissions call succeeded, a    *)
(* cabin class is in availableCabinClasses exactly when                    *)
(* emissionsGramsPerPax has an entry for it, and that entry is the         *)
(* strictly positive sum of the per-segment values of that class; a cabin  *)
(* class whose total is 0 is recorded in neither field.                    *)
(***************************************************************************)
\* the sum of the values of one cabin over the entries that carry values
SegmentTotal(entries, k) ==
  SumSeq([i \in 1..Len(entries) |->
            IF "emissionsGramsPerPax" \in DOMAIN entries[i]
            THEN entries[i].emissionsGramsPerPax[k] ELSE 0])

C21_AvailableIffPositiveTotal ==
  \A r \in Requests :
    (pc[r] = "done" /\ Grouped(r)) =>
      \A g \in 1..Len(groupedOffers[r]) :
        \A m \in 1..Len(groupedOffers[r][g].members) :
          LET offer == response[r].body.offers[groupedOffers[r][g].members[m]]
              outcome == settled[r][EmissionsCallIndex(r, g)]
          IN  outcome.ok =>
                \A k \in Range(CabinKeys) :
                  LET total == SegmentTotal(outcome.data.flightEmissions, k)
                      listed == \E n \in 1..Len(offer.availableCabinClasses) :
                                  offer.availableCabinClasses[n] = CabinName(k)
                      entered == k \in DOMAIN offer.emissionsGramsPerPax
                  IN  /\ listed <=> entered
                      /\ entered <=> total > 0
                      /\ entered => offer.emissionsGramsPerPax[k] = total

\* a delivered offer whose only segment has an economy value and 0 for the
\* other cabins: economy is recorded in both fields, business in neither
C21_Witness ==
  \E r \in Requests :
    /\ pc[r] = "done" /\ Grouped(r)
    /\ \E g \in 1..Len(groupedOffers[r]) :
         LET offer == response[r].body.offers[groupedOffers[r][g].members[1]]
             outcome == settled[r][EmissionsCallIndex(r, g)]
         IN  /\ outcome.ok /\ Len(outcome.data.flightEmissions) > 0
             /\ SegmentTotal(outcome.data.flightEmissions, "business") = 0
             /\ SegmentTotal(outcome.data.flightEmissions, "economy") > 0
             /\ offer.availableCabinClasses = <<"ECONOMY">>
             /\ DOMAIN offer.emissionsGramsPerPax = {"economy"}

(***************************************************************************)
(* C22: the cache is written only at the end of a miss path that completed *)
(* without error: a search that ends in HTTP 500 leaves the cache          *)
(* unchanged, so the next admitted request with the same parameters calls  *)
(* the providers again.                                                    *)
(***************************************************************************)
\* this step ends the miss path of r without error and stores its response
MissPathWrites(r) ==
  /\ Active(r) /\ pc'[r] = "done"
  /\ response'[r].status = 200
  /\ requestCache' = CacheSet(requestCache, cacheKey(body[r]), response'[r].body, now)

\* this step admits r and deletes the expired entry of its own parameters
ExpiredDropped(r) ==
  /\ Arrives(r) /\ pc'[r] # "done"
  /\ cacheKey(body'[r]) \in DOMAIN requestCache
  /\ now - requestCache[cacheKey(body'[r])].timestamp >= CACHE_DURATION
  /\ requestCache' = CacheDelete(requestCache, cacheKey(body'[r]))

\* s is the next request admitted after r, with the parameters of r
NextAdmitted(r, s) ==
  /\ r < s /\ pc[s] # "new" /\ response[s] # RejectionResponse
  /\ cacheKey(body[s]) = cacheKey(body[r])
  /\ \A t \in Requests : (r < t /\ t < s) => response[t] = RejectionResponse

\* after a search that ended in HTTP 500, the next admitted request with
\* the same parameters calls the providers
RetrySearchesAgain ==
  \A r, s \in Requests :
    (pc[r] = "done" /\ response[r].status = 500 /\ NextAdmitted(r, s))
      => /\ calls[s] # <<>>
         /\ calls[s][1] = FirstCall

\* the claim as stated: no step but the successful end of a miss path
\* changes the cache
C22_CacheChangesOnlyOnSuccess ==
  /\ [][requestCache' # requestCache => \E r \in Requests : MissPathWrites(r)]_vars
  /\ []RetrySearchesAgain

\* C22 as amended: an entry is added or replaced only by the successful end
\* of a miss path; the only other change of the cache is the deletion, at
\* admission, of the expired entry of the admitted request's own parameters;
\* every step of an admitted search that ends it in HTTP 500 leaves the
\* cache as it is, and the next admitted request with the same parameters
\* calls the providers again.
C22_FailedSearchStoresNothing ==
  /\ [][ /\ requestCache' # requestCache
           => \E r \in Requests : MissPathWrites(r) \/ ExpiredDropped(r)
         /\ \A r \in Requests :
              (Active(r) /\ response'[r].status = 500) => requestCache' = requestCache
         /\ \A k \in DOMAIN requestCache' :
              (k \notin DOMAIN requestCache \/ requestCache'[k] # requestCache[k])
                => \E r \in Requests : MissPathWrites(r) /\ k = cacheKey(body[r]) ]_vars
  /\ []RetrySearchesAgain

\* the first search stored its result, the second, with the same
\* parameters, found it expired and ended in HTTP 500, leaving no entry,
\* and the third called the providers again
C22_Witness ==
  /\ MaxReq >= 3
  /\ body[1] = body[2] /\ body[2] = body[3]
  /\ response[1].status = 200 /\ calls[1] # <<>>
  /\ pc[2] = "done" /\ response[2].status = 500
  /\ cacheKey(body[2]) \notin DOMAIN requestCache
  /\ calls[3] # <<>> /\ calls[3][1] = FirstCall

(***************************************************************************)
(* C23: when the primary flight search succeeds with zero offers, the      *)
(* secondary provider is not called and no itinerary-emissions request is  *)
(* issued; the request answers HTTP 200 with offers: [] and this empty     *)
(* result is cached under the request's fingerprint like any other result. *)
(***************************************************************************)
\* the Amadeus search of r has settled, successfully, with no offer
PrimaryFoundNothing(r) ==
  \E i \in DOMAIN settled[r] :
    /\ calls[r][i].api = "amadeusFlightOffersSearch"
    /\ settled[r][i].ok
    /\ Len(settled[r][i].data) = 0

EmptyResult(r) == [offers |-> <<>>, typicalEmissions |-> typicalEmissions[r]]

C23_EmptyPrimaryResult ==
  /\ [](\A r \in Requests :
          PrimaryFoundNothing(r) =>
            /\ pc[r] = "done"
            /\ Apis(calls[r]) = {"typicalEmissions", "amadeusFlightOffersSearch"}
            /\ Len(calls[r]) = 2
            /\ response[r] = Json(200, EmptyResult(r)))
  /\ [][\A r \in Requests :
          (~PrimaryFoundNothing(r) /\ PrimaryFoundNothing(r)') =>
            /\ cacheKey(body[r]) \in DOMAIN requestCache'
            /\ requestCache'[cacheKey(body[r])] = [data |-> EmptyResult(r), timestamp |-> now]
            /\ \A k \in DOMAIN requestCache : k # cacheKey(body[r]) =>
                 /\ k \in DOMAIN requestCache'
                 /\ requestCache'[k] = requestCache[k]]_vars

\* a search that found no offer is done with two calls and its empty
\* result is in the cache; the next request with the same parameters was
\* answered with it without any call
C23_Witness ==
  \E r, s \in Requests :
    /\ PrimaryFoundNothing(r) /\ pc[r] = "done"
    /\ r < s /\ body[s] = body[r]
    /\ cacheKey(body[r]) \in DOMAIN requestCache
    /\ requestCache[cacheKey(body[r])].data.offers = <<>>
    /\ pc[s] = "done" /\ calls[s] = <<>>
    /\ response[s] = Json(200, EmptyResult(r))

(***************************************************************************)
(* C24: while an outbound call of the admitted search has not settled, the *)
(* admission flag stays set and no timeout clears it: every POST /date     *)
(* request arriving in that period, for any search parameters, is rejected *)
(* as already in progress; as long as the call does not settle no later    *)
(* search is admitted.                                                     *)
(***************************************************************************)
\* some outbound call of r has not settled
CallOutstanding(r) == \E i \in 1..Len(calls[r]) : i \notin DOMAIN settled[r]

C24_HungCallBlocksAdmission ==
  /\ [](\A r \in Requests :
          CallOutstanding(r) =>
            /\ flightSearchInProgress
            /\ response[r] = NoResponse
            /\ \A s \in Requests : (s # r /\ pc[s] # "new") => ~CallOutstanding(s))
  /\ [][\A r \in Requests :
          CallOutstanding(r) =>
            /\ now' # now => (flightSearchInProgress' /\ CallOutstanding(r)')
            /\ \A s \in Requests :
                 Arrives(s) =>
                   /\ response'[s] = RejectionResponse
                   /\ pc'[s] = "done" /\ calls'[s] = <<>>
                   /\ flightSearchInProgress' /\ CallOutstanding(r)']_vars

\* a call of the first search is still outstanding after the cache's time
\* to live has passed twice over, and a request with other parameters and
\* one with the same parameters were both rejected
C24_Witness ==
  /\ MaxReq >= 3
  /\ CallOutstanding(1) /\ flightSearchInProgress
  /\ now >= CACHE_DURATION
  /\ body[2] # body[1] /\ body[3] = body[1]
  /\ response[2] = RejectionResponse /\ response[3] = RejectionResponse

(***************************************************************************)
(* C25: whenever the client's CO2-filterable set changes size, including   *)
(* when it becomes empty at the start of a new search or after a search    *)
(* with no usable offers, the price, duration and CO2 filter ranges are    *)
(* reset to the full bounds computed for the new set.                      *)
(***************************************************************************)
\* the three ranges span the bounds of the filterable set of fl
RangesSpan(fl, class, prices, durations, co2s) ==
  LET b == FilterBounds(FlightsWithCO2(fl, class), class)
  IN  /\ prices = <<b.minPrice, b.maxPrice>>
      /\ durations = <<b.minDuration, b.maxDuration>>
      /\ co2s = <<NumberOfTenths(b.minCo2), NumberOfTenths(b.maxCo2)>>

RangesAtBounds == RangesSpan(flights, searchedCabinClass, priceRange, durationRange, co2Range)

\* the size of the filterable set before and after the step
SizeBefore == Len(FlightsWithCO2(flights, searchedCabinClass))
SizeAfter == Len(FlightsWithCO2(flights', searchedCabinClass'))

\* this step renders the updates of the effect
EffectRuns == effect.pending /\ ~effect'.pending

\* the three ranges after this step
RangesAfter == <<priceRange', durationRange', co2Range'>>

\* the ranges that span the bounds b
BoundsOf(b) ==
  <<<<b.minPrice, b.maxPrice>>, <<b.minDuration, b.maxDuration>>,
    <<NumberOfTenths(b.minCo2), NumberOfTenths(b.maxCo2)>>>>

\* the claim as stated: a step that changes the size of the set resets the
\* ranges to the bounds of the new set, at once or by the effect it leaves
\* to run
C25_RangesResetOnSizeChange ==
  [][ SizeAfter # SizeBefore
        => \/ RangesSpan(flights', searchedCabinClass', priceRange', durationRange', co2Range')
           \/ effect' = Scheduled(EffectDeps(flights', searchedCabinClass'))
    ]_vars

\* C25 as amended: a render that shows a filterable set of another size,
\* this set not being empty, leaves an effect to run whose body calls the
\* three setters with the full bounds computed for this set.  The body runs
\* after the render is committed and its updates are rendered after that:
\* until then events are handled with the previous ranges.  When the
\* updates are rendered, a range is set to those bounds unless a slider of
\* it has been moved since the body ran, and a range moved since keeps the
\* value the slider gave it.  When the set has become empty (at the start
\* of a new search, or after a search with no usable offers) the ranges are
\* not reset to its bounds: the step leaves them as they are.
C25_RangesResetOnNonEmptySet ==
  [][ /\ (SizeAfter # SizeBefore /\ SizeAfter > 0)
           => /\ effect' = Scheduled(EffectDeps(flights', searchedCabinClass'))
              /\ RangesAfter = <<priceRange, durationRange, co2Range>>
      /\ (SizeAfter # SizeBefore /\ SizeAfter = 0)
           => RangesAfter = <<priceRange, durationRange, co2Range>>
      /\ (effect.pending /\ effect'.pending)
           => /\ effect'.deps = effect.deps
              /\ ~effect.run => effect'.updates = {"price", "duration", "co2"}
              /\ effect.run
                   => /\ effect'.run /\ effect'.updates \subseteq effect.updates
                      /\ priceRange' # priceRange => "price" \notin effect'.updates
                      /\ durationRange' # durationRange => "duration" \notin effect'.updates
                      /\ co2Range' # co2Range => "co2" \notin effect'.updates
      /\ EffectRuns
           => /\ effect.run /\ effect.deps[2] > 0
              /\ priceRange' = IF "price" \in effect.updates
                               THEN BoundsOf(effect.deps[1])[1] ELSE priceRange
              /\ durationRange' = IF "duration" \in effect.updates
                                  THEN BoundsOf(effect.deps[1])[2] ELSE durationRange
              /\ co2Range' = IF "co2" \in effect.updates
                             THEN BoundsOf(effect.deps[1])[3] ELSE co2Range
    ]_vars

\* a business-class search has delivered offers with business values: the
\* set went from empty to non-empty and the ranges span its bounds, which
\* are not the default bounds
C25_Witness ==
  /\ ~loading /\ ~effect.pending /\ searchedCabinClass = "BUSINESS"
  /\ Len(flightsWithCO2) > 0
  /\ RangesAtBounds
  /\ priceRange # <<DefaultBounds.minPrice, DefaultBounds.maxPrice>>

(***************************************************************************)
(* C26: after any sequence of slider adjustments in FilterControls, each   *)
(* of the price, duration and CO2 filter ranges stays within the bounds    *)
(* computed from the current offer set: its lower end is never below the   *)
(* dimension's minimum and its upper end never above the dimension's       *)
(* maximum.                                                                *)
(***************************************************************************)
\* both ends of the range lie between min and max
Within(range, min, max) ==
  /\ min <= range[1] /\ range[1] <= max
  /\ min <= range[2] /\ range[2] <= max

\* the same of a range of doubles, min and max being counts of tenths
WithinCo2(range, min, max) ==
  /\ AtMost(NumberOfTenths(min), range[1]) /\ AtMost(range[1], NumberOfTenths(max))
  /\ AtMost(NumberOfTenths(min), range[2]) /\ AtMost(range[2], NumberOfTenths(max))

\* stated of the states in which the controls are shown and the effect of
\* the last render has run
C26_RangesWithinBounds ==
  (ControlsShown /\ ~effect.pending) =>
    /\ Within(priceRange, bounds.minPrice, bounds.maxPrice)
    /\ Within(durationRange, bounds.minDuration, bounds.maxDuration)
    /\ WithinCo2(co2Range, bounds.minCo2, bounds.maxCo2)

(***************************************************************************)
(* C27: for each of the six sort keys, the client's sorted list equals the *)
(* stable sort of the CO2-filterable set by the selected numeric key (CO2, *)
(* price or total duration; ascending or descending), a missing or NaN key *)
(* counting as 0: offers with equal keys keep their relative order from    *)
(* the server response, also when the list is re-derived after a filter    *)
(* change.                                                                 *)
(***************************************************************************)
\* the numeric key the sort key selects, negated for the descending orders
OrderValue(f, class, key) ==
  CASE key = "co2_lowest" -> Co2OrZero(f, class)
    [] key = "co2_highest" -> 0 - Co2OrZero(f, class)
    [] key = "price_lowest" -> getPriceForClass(f, class)
    [] key = "price_highest" -> 0 - getPriceForClass(f, class)
    [] key = "duration_shortest" -> getFlightDuration(f)
    [] key = "duration_longest" -> 0 - getFlightDuration(f)

\* the place of the i-th offer of fl in the stable sort of fl
StablePlace(fl, i, class, key) ==
  1 + Cardinality({j \in 1..Len(fl) :
        \/ OrderValue(fl[j], class, key) < OrderValue(fl[i], class, key)
        \/ (OrderValue(fl[j], class, key) = OrderValue(fl[i], class, key) /\ j < i)})

\* the index of the offer with this id in a list that holds it
PlaceOf(fl, id) == CHOOSE i \in 1..Len(fl) : fl[i].id = id

C27_StableSort ==
  /\ sortBy \in Range(SortKeys)
  /\ Len(sortedFlights) = Len(flightsWithCO2)
  /\ \A i \in 1..Len(flightsWithCO2) :
       sortedFlights[StablePlace(flightsWithCO2, i, searchedCabinClass, sortBy)] = flightsWithCO2[i]
  /\ \A p, q \in 1..Len(sortedFlights) :
       (/\ p < q
        /\ OrderValue(sortedFlights[p], searchedCabinClass, sortBy)
             = OrderValue(sortedFlights[q], searchedCabinClass, sortBy))
         => PlaceOf(flights, sortedFlights[p].id) < PlaceOf(flights, sortedFlights[q].id)
  /\ \A p, q \in 1..Len(filteredFlights) :
       p < q => PlaceOf(sortedFlights, filteredFlights[p].id)
                  < PlaceOf(sortedFlights, filteredFlights[q].id)

\* sorted by price, highest first, the two offers without a price count as
\* 0 and come last in the order of the response, and the stops filter has
\* been changed since
C27_Witness ==
  /\ sortBy = "price_highest" /\ stopsFilter = "1"
  /\ Len(sortedFlights) = 3
  /\ sortedFlights[1].id = "s" /\ sortedFlights[2].id = "p" /\ sortedFlights[3].id = "t"
  /\ getPriceForClass(sortedFlights[2], searchedCabinClass) = 0
  /\ PlaceOf(flights, "p") < PlaceOf(flights, "s")
  /\ Len(filteredFlights) < Len(sortedFlights)

(***************************************************************************)
(* C28: right after the filter ranges have been initialised to the         *)
(* computed bounds and with the stops filter at 'any', every offer of the  *)
(* CO2-filterable set passes the range filters, so the filtered list has   *)
(* as many offers as the CO2-filterable set ('Showing N of N flights');    *)
(* this also holds for offers whose derived price or total duration is 0.  *)
(***************************************************************************)
C28_UntouchedFiltersShowAll ==
  (ControlsShown /\ ~effect.pending /\ RangesAtBounds /\ stopsFilter = "any")
    => Len(filteredFlights) = Len(flightsWithCO2)

(***************************************************************************)
(* C29: in every reachable client state the lower end of each filter range *)
(* (price, duration, CO2) is not greater than its upper end, and after any *)
(* slider adjustment the lower end is strictly below the upper end (by at  *)
(* least 1 for price and duration, 0.1 for CO2).                           *)
(***************************************************************************)
\* this step is a slider adjustment of the range: the range changes while
\* no search starts or ends and no effect sets the ranges
Adjusted(range, rangeAfter) ==
  rangeAfter # range /\ flights' = flights /\ loading' = loading /\ ~EffectRuns

\* the ends of the range are at least one step apart
Apart(range, step) == range[1] + step <= range[2]

\* the ends of a range of doubles are at least 0.1 apart, as far as doubles
\* can tell: the lower end is not above the double of the decimal a tenth
\* below the upper end, nor the upper end below the double of the decimal a
\* tenth above the lower end
ApartCo2(range) ==
  /\ AtMost(range[1], NumberOfTenths(range[2].tenths - 1))
  /\ AtMost(NumberOfTenths(range[1].tenths + 1), range[2])

C29_LowerNotAboveUpper ==
  /\ [](/\ priceRange[1] <= priceRange[2]
        /\ durationRange[1] <= durationRange[2]
        /\ AtMost(co2Range[1], co2Range[2]))
  /\ [][ /\ Adjusted(priceRange, priceRange') => Apart(priceRange', 1)
         /\ Adjusted(durationRange, durationRange') => Apart(durationRange', 1)
         /\ Adjusted(co2Range, co2Range') => ApartCo2(co2Range') ]_vars

(***************************************************************************)
(* C30: two offers of one provider response receive the same               *)
(* itinerary-identity key, and hence share one emissions result (and, on   *)
(* the secondary path, are collapsed into one), only if their ordered      *)
(* segment sequences agree on carrier code, flight number and departure    *)
(* timestamp across all itineraries; offers that differ in any of these    *)
(* are never merged.                                                       *)
(***************************************************************************)
\* the identity of an offer in the shape it is held in: Duffel's until the
\* final transformation, Amadeus's otherwise
HeldIdentity(offer) == ItineraryIdentity(offer, "slices" \in DOMAIN offer)

C30_SameKeyOnlyIfSameSegments ==
  \A r \in Requests :
    Grouped(r) =>
      LET offers == ProviderResponse(r)
          kept == allFlightOffers[r]
          duffel == usingDuffel[r]
          identities == {ItineraryIdentity(offers[i], duffel) : i \in 1..Len(offers)}
      IN  /\ \A i, j \in 1..Len(offers) :
                flightKey(offers[i], duffel) = flightKey(offers[j], duffel)
                  => ItineraryIdentity(offers[i], duffel) = ItineraryIdentity(offers[j], duffel)
          /\ \A g \in 1..Len(groupedOffers[r]) :
               \A m, n \in 1..Len(groupedOffers[r][g].members) :
                 HeldIdentity(kept[groupedOffers[r][g].members[m]])
                   = HeldIdentity(kept[groupedOffers[r][g].members[n]])
          /\ {HeldIdentity(kept[i]) : i \in 1..Len(kept)} = identities
          /\ Len(groupedOffers[r]) = Cardinality(identities)
          /\ Cardinality(EmissionsCalls(r)) = Cardinality(identities)

\* a Duffel response of five offers, two of them the same flights and the
\* others differing from these in one field each, was collapsed into four
\* offers in four groups
C30_Witness ==
  \E r \in Requests :
    /\ Grouped(r) /\ usingDuffel[r]
    /\ Len(DuffelReturned(r)) = 5
    /\ Len(allFlightOffers[r]) = 4
    /\ Len(groupedOffers[r]) = 4
    /\ Cardinality({flightKey(DuffelReturned(r)[i], TRUE) : i \in 1..5}) = 4

====
